---- MODULE Spec2Model ----
(***************************************************************************)
(* A model of the EDS/DCF tool chain of lely-core (python/dcf-tools):      *)
(*   dcf/device.py   DataType, Value, Object, SubObject, PDO, Device       *)
(*   dcf/lint.py     the range check of DefaultValue / ParameterValue      *)
(*   dcf/parse.py    the CompactPDO expansion of the INI store             *)
(*   dcfgen/cli.py   Slave.from_config and its PDO reconfiguration         *)
(*                                                                         *)
(* Numbers.  TLC's integers are 32-bit.  An UNSIGNED32 word w >= 2^31      *)
(* (a COB-ID with bit 31 set) is carried as w - 2^32, the same 32 bits     *)
(* read as two's complement: equality, the bit tests and the little-endian *)
(* bytes of the word are unchanged by that.  Ranges of the data types      *)
(* wider than 31 bits are clipped to TLC's range where values are drawn.   *)
(***************************************************************************)
EXTENDS Integers, Sequences, FiniteSets, TLC

VARIABLES
    call,       \* the function under evaluation and its arguments
    ret,        \* its result: NoRet before the call returns
    warnings    \* the warnings.warn() calls made so far, in order

vars == <<call, ret, warnings>>

\* ret before the call returns; afterwards ret = <<outcome>>
NoRet == <<>>

\* the outcome of a Python call: a returned value, or a raised exception
Ok(v) == [exc |-> "", value |-> v]
Raise(e) == [exc |-> e, value |-> <<>>]

(***************************************************************************)
(* Helpers for Python built-ins.                                          *)
(***************************************************************************)
IntMax == 2147483646 + 1
IntMin == (0 - 2147483646) - 2

\* x & 0x80000000 != 0, on a 32-bit word
HasBit31(x) == x < 0

\* x | 0x80000000, on a 32-bit word
OrBit31(x) == IF x < 0 THEN x ELSE (x - 2147483646) - 2

\* int.to_bytes(n, "little") of the two's complement of v, as struct.pack lays
\* an integer field out under "<"
RECURSIVE LittleEndian(_, _)
LittleEndian(v, n) ==
    IF n = 0 THEN <<>> ELSE <<v % 256>> \o LittleEndian(v \div 256, n - 1)

\* int.from_bytes(b, "little", signed = signed)
RECURSIVE FromLittleEndian(_, _)
FromLittleEndian(b, signed) ==
    IF Len(b) = 0 THEN 0
    ELSE IF Len(b) = 1 THEN (IF signed /\ b[1] >= 128 THEN b[1] - 256 ELSE b[1])
    ELSE b[1] + 256 * FromLittleEndian(Tail(b), signed)

\* the empty dict, and the env {"NODEID": node_id}
EmptyDict == [k \in {} |-> 0]
Env(node_id) == [k \in {"NODEID"} |-> node_id]

\* the keys of a dict modelled as a function
Keys(d) == DOMAIN d

\* a dict held as the explicit table of its items
Force(f) == f @@ EmptyDict

\* Where a result is assigned to a local that the following statements read, the
\* model writes the statements as
\*     CHOOSE out \in {F(x) : x \in {e}} : TRUE
\* which is `x = e; return F(x)`: e is evaluated once, x holds its value.

(***************************************************************************)
(* dcf/device.py: DataType                                                 *)
(***************************************************************************)
\* the integer types of DataType.__bits (REAL32 0x0008 and REAL64 0x0011 are
\* basic too; floating point values are outside this model)
IntegerTypes ==
    {\h0001, \h0002, \h0003, \h0004, \h0005, \h0006, \h0007, \h0010, \h0012,
     \h0013, \h0014, \h0015, \h0016, \h0018, \h0019, \h001A, \h001B}

\* the indices of DataType.__name
NamedTypes ==
    IntegerTypes \cup {\h0008, \h0009, \h000A, \h000B, \h000C, \h000D, \h000F, \h0011}

DataType_bits(index) ==
    CASE index = \h0001 -> 1
      [] index \in {\h0002, \h0005} -> 8
      [] index \in {\h0003, \h0006} -> 16
      [] index \in {\h0004, \h0007, \h0008} -> 32
      [] index \in {\h0010, \h0016} -> 24
      [] index \in {\h0012, \h0018} -> 40
      [] index \in {\h0013, \h0019} -> 48
      [] index \in {\h0014, \h001A} -> 56
      [] index \in {\h0015, \h001B, \h0011} -> 64

DataType_is_basic(index) == index \in IntegerTypes \cup {\h0008, \h0011}

DataType_signed(index) ==
    index \in {\h0002, \h0003, \h0004, \h0010, \h0012, \h0013, \h0014, \h0015}

\* DataType.__min, clipped to TLC's integers
DataType_min(index) ==
    IF ~DataType_signed(index) THEN 0
    ELSE CASE index = \h0002 -> 0 - \h80
           [] index = \h0003 -> 0 - \h8000
           [] index = \h0010 -> 0 - \h800000
           [] OTHER -> IntMin

\* DataType.__max, clipped to TLC's integers
DataType_max(index) ==
    CASE index = \h0001 -> 1
      [] index = \h0002 -> \h7F
      [] index = \h0003 -> \h7FFF
      [] index = \h0005 -> \hFF
      [] index = \h0006 -> \hFFFF
      [] index = \h0010 -> \h7FFFFF
      [] index = \h0016 -> \hFFFFFF
      [] OTHER -> IntMax

\* the last character of DataType.__fmt[index]; every format is "<HBL" + it
DataType_fmt(index) ==
    CASE index \in {\h0001, \h0005} -> "B"
      [] index = \h0002 -> "b"
      [] index = \h0003 -> "h"
      [] index = \h0006 -> "H"
      [] index \in {\h0004, \h0010} -> "l"
      [] index \in {\h0007, \h0016} -> "L"
      [] index \in {\h0012, \h0013, \h0014, \h0015} -> "q"
      [] index \in {\h0018, \h0019, \h001A, \h001B} -> "Q"

\* struct.calcsize of one format character in standard ("<") mode
struct_calcsize(c) ==
    CASE c \in {"b", "B"} -> 1
      [] c \in {"h", "H"} -> 2
      [] c \in {"l", "L"} -> 4
      [] c \in {"q", "Q"} -> 8

\* struct.pack raises struct.error for an integer outside the format's range;
\* the 4- and 8-byte formats hold every integer of this model
struct_fits(c, v) ==
    CASE c = "b" -> v >= 0 - 128 /\ v <= 127
      [] c = "B" -> v >= 0 /\ v <= 255
      [] c = "h" -> v >= 0 - 32768 /\ v <= 32767
      [] c = "H" -> v >= 0 /\ v <= 65535
      [] OTHER -> TRUE

\* struct.pack("<HBL" + c, index, sub_index, n, value)
struct_pack(c, index, sub_index, n, value) ==
    IF ~struct_fits(c, value) \/ ~struct_fits("H", index) \/ ~struct_fits("B", sub_index)
    THEN Raise("struct.error")
    ELSE Ok(LittleEndian(index, 2) \o LittleEndian(sub_index, 1) \o LittleEndian(n, 4)
                \o LittleEndian(value, struct_calcsize(c)))

DataType_concise_value(self, index, sub_index, value) ==
    LET fmt == DataType_fmt(self)
        n == (DataType_bits(self) + 7) \div 8
    IN  struct_pack(fmt, index, sub_index, n, value)

\* struct.unpack("<HBL", sdo[:7]) as print_sdo reads a record, then the payload of
\* the n bytes the record announces, as an integer of the data type's signedness
concise_decode(dt, sdo) ==
    LET n == FromLittleEndian(SubSeq(sdo, 4, 7), FALSE)
    IN  <<FromLittleEndian(SubSeq(sdo, 1, 2), FALSE),
          FromLittleEndian(SubSeq(sdo, 3, 3), FALSE),
          n,
          FromLittleEndian(SubSeq(sdo, 8, 7 + n), DataType_signed(dt))>>

\* The raw strings of a DCF.  A string is modelled by its shape under the
\* pattern of Value.__p_value and lint.__p_value (case-insensitive),
\*   (\$(?P<variable>NODEID)\s*\+\s*)?(?P<value>(-?0x[0-9A-F]+)|(-?[0-9]+))$
\*   form "empty"       the empty string
\*   form "number"      -?0x<hex digits> or -?<decimal digits>
\*   form "var"         $NODEID alone, in the spelling `text`
\*   form "var+number"  $NODEID + number, the variable spelled `text`
\*   form "text"        any other string, `text`
\* base is 16 for a number written with the 0x prefix, 10 without.
Str(form, text, neg, base, digits) ==
    [form |-> form, text |-> text, neg |-> neg, base |-> base, digits |-> digits]

EmptyStr == Str("empty", "", FALSE, 10, <<>>)
Text(t) == Str("text", t, FALSE, 10, <<>>)

RECURSIVE DigitsOf(_, _)
DigitsOf(n, base) ==
    IF n < base THEN <<n>> ELSE Append(DigitsOf(n \div base, base), n % base)

\* str(n) and "0x{:X}".format(n)
Dec(n) == IF n < 0 THEN Str("number", "", TRUE, 10, DigitsOf(0 - n, 10))
                   ELSE Str("number", "", FALSE, 10, DigitsOf(n, 10))
Hex(n) == Str("number", "", FALSE, 16, DigitsOf(n, 16))

\* "$NODEID+" followed by the number s
NodeIdPlus(s) == [s EXCEPT !.form = "var+number", !.text = "NODEID"]
NodeIdStr == Str("var", "NODEID", FALSE, 10, <<>>)

\* str.upper() on the spellings of the variable
Upper(t) == IF t \in {"NODEID", "nodeid", "NodeId"} THEN "NODEID" ELSE t

\* the groups of __p_value.match(s): <<>> when the string does not match,
\* otherwise <<[variable, value]>> with variable = None for a missing group
None == ""
p_value_match(s) ==
    CASE s.form = "number" -> <<[variable |-> None, value |-> s]>>
      [] s.form = "var+number" ->
            <<[variable |-> s.text, value |-> [s EXCEPT !.form = "number", !.text = ""]]>>
      [] OTHER -> <<>>

\* the number that the digits write; the eighth hexadecimal digit of a word with
\* bit 31 set gives the word as w - 2^32
RECURSIVE DigitsValue(_, _)
DigitsValue(digits, base) ==
    IF digits = <<>> THEN 0
    ELSE CHOOSE out \in {
             IF base = 16 /\ v >= 134217728 /\ v < 268435456
             THEN ((v - 134217728) * 16 + digits[Len(digits)]) - 2147483647 - 1
             ELSE v * base + digits[Len(digits)]
           : v \in {DigitsValue(SubSeq(digits, 1, Len(digits) - 1), base)}} : TRUE

\* int(s, base) for base 0 and base 10: only a number is accepted; base 0 reads
\* the 0x prefix and refuses a decimal with a leading zero (unless it is zero),
\* base 10 refuses the 0x prefix
python_int(s, base) ==
    LET n == DigitsValue(s.digits, s.base)
        signed == IF s.neg THEN 0 - n ELSE n
    IN  IF s.form # "number" THEN Raise("ValueError")
        ELSE IF base = 10 /\ s.base # 10 THEN Raise("ValueError")
        ELSE IF base = 0 /\ s.base = 10 /\ Len(s.digits) > 1 /\ s.digits[1] = 0 /\ n # 0
             THEN Raise("ValueError")
        ELSE Ok(signed)

(***************************************************************************)
(* dcf/device.py: Value                                                    *)
(***************************************************************************)
DataType_default_value(index) ==
    IF DataType_is_basic(index) THEN Dec(0)
    ELSE IF index \in {\h0009, \h000B} THEN Text("\"\"")
    ELSE EmptyStr

\* Value.__init__: the outcome is the constructed Value or ValueError
Value_init(data_type, value) ==
    LET v == IF value.form # "empty" THEN value ELSE DataType_default_value(data_type)
        m == p_value_match(v)
    IN  IF ~DataType_is_basic(data_type)
        THEN Ok([data_type |-> data_type, value |-> v, variable |-> None])
        ELSE IF v.form = "var" /\ Upper(v.text) = "NODEID"
        THEN Ok([data_type |-> data_type, value |-> Dec(0), variable |-> v.text])
        ELSE IF m # <<>>
        THEN Ok([data_type |-> data_type, value |-> m[1].value,
                 variable |-> m[1].variable])
        ELSE Raise("ValueError")

Value_parse_mutant(self, env) ==
    LET value == python_int(self.value, 0)
        offset == IF self.variable # None /\ Upper(self.variable) \in DOMAIN env
                  THEN env[Upper(self.variable)] ELSE 0
    IN  IF value.exc # "" THEN value ELSE Ok(value.value + offset)

\* Value.parse for the data types parsed by _parse_int
Value_parse(self, env) ==
    LET value == python_int(self.value, 0)
    IN  IF value.exc # "" THEN value
        ELSE IF self.variable = None THEN Ok(value.value + 0)
        ELSE IF Upper(self.variable) \in DOMAIN env
        THEN Ok(value.value + env[Upper(self.variable)])
        ELSE Raise("KeyError")

Value_has_nodeid(self) == self.variable # None /\ Upper(self.variable) = "NODEID"

(***************************************************************************)
(* The INI store (the ConfigParser that parse_file returns): a function    *)
(* from section names to sections, a section being a function from its     *)
(* keys to their strings.  A section name is a tuple:                      *)
(*   <<"DeviceInfo">>, <<"OptionalObjects">>, ...   the fixed sections     *)
(*   <<"obj", index>>      "{:04X}".format(index)                          *)
(*   <<"sub", index, k>>   "{:04X}sub{:X}".format(index, k)                *)
(*   <<"Value", index>>    "{:04X}Value".format(index)                     *)
(*   <<"Name", index>>     "{:04X}Name".format(index)                      *)
(***************************************************************************)
ObjName(index) == <<"obj", index>>
SubName(index, sub_index) == <<"sub", index, sub_index>>
ValueName(index) == <<"Value", index>>
NameName(index) == <<"Name", index>>

Min(S) == CHOOSE x \in S : \A y \in S : x <= y
Max(S) == CHOOSE x \in S : \A y \in S : x >= y

\* the outcomes outs[k] of a loop over the keys k in ascending order: the dict of
\* the values, or the first exception
Collect(outs) ==
    CHOOSE out \in {
        IF \A k \in DOMAIN o : o[k].exc = ""
        THEN Ok(Force([k \in DOMAIN o |-> o[k].value]))
        ELSE Raise(o[Min({k \in DOMAIN o : o[k].exc # ""})].exc)
      : o \in {Force(outs)}} : TRUE

\* the first exception among a sequence of outcomes, "" when none raised
FirstExc(outs) ==
    LET bad == {i \in 1 .. Len(outs) : outs[i].exc # ""}
    IN  IF bad = {} THEN "" ELSE outs[Min(bad)].exc

\* `key in section and section[key]`
Has(section, key) == key \in DOMAIN section /\ section[key].form # "empty"

\* section[key], KeyError when the key is missing
Get(section, key) == IF key \in DOMAIN section THEN Ok(section[key]) ELSE Raise("KeyError")

\* int(section[key], 0) if `key in section and section[key]`, else the default
IntOr(section, key, default) ==
    IF Has(section, key) THEN python_int(section[key], 0) ELSE Ok(default)

(***************************************************************************)
(* dcf/parse.py: the CompactPDO expansion of parse_file                    *)
(***************************************************************************)
\* cfg[name] = section
Put(cfg, name, section) ==
    [x \in DOMAIN cfg \cup {name} |-> IF x = name THEN section ELSE cfg[x]]

\* section[key] = value
Set(section, key, value) ==
    [x \in DOMAIN section \cup {key} |-> IF x = key THEN value ELSE section[x]]

\* a number written in hexadecimal with the digits d, leading zeros included
HexDigits(d) == Str("number", "", FALSE, 16, d)

\* Bit without the bit 0x20 of the SYNC start value
Bit_mutant(compact_pdo, k) == k < 5 /\ (compact_pdo \div (2 ^ k)) % 2 = 1

\* compact_pdo & (1 << k)
Bit(compact_pdo, k) == (compact_pdo \div (2 ^ k)) % 2 = 1

\* the first counting loop: the number of explicit PDOs at comm .. comm + 511
npdo_mutant(cfg, comm) == 0

npdo(cfg, comm) == Cardinality({i \in 0 .. 511 : ObjName(comm + i) \in DOMAIN cfg})

\* the sub-object section that the expansion writes for bit k - 1 of CompactPDO
\* (pdo is the record of what differs between the RPDO and the TPDO pass)
compact_sub(pdo, i, k) ==
    CASE k = 1 ->
           [ParameterName |-> Text(pdo.cob_id), DataType |-> HexDigits(<<0, 0, 0, 7>>),
            AccessType |-> Text("rw"),
            DefaultValue |-> IF i < 4 THEN NodeIdPlus(Hex((i + 1) * \h100 + pdo.base))
                             ELSE HexDigits(<<8, 0, 0, 0, 0, 0, 0, 0>>)]
      [] k = 2 ->
           [ParameterName |-> Text("transmission type"),
            DataType |-> HexDigits(<<0, 0, 0, 5>>), AccessType |-> Text("rw")]
      [] k = 3 ->
           [ParameterName |-> Text("inhibit time"),
            DataType |-> HexDigits(<<0, 0, 0, 6>>), AccessType |-> Text("rw")]
      [] k = 4 ->
           [ParameterName |-> Text(pdo.entry4),
            DataType |-> HexDigits(<<0, 0, 0, 5>>), AccessType |-> Text("rw")]
      [] k = 5 ->
           [ParameterName |-> Text(pdo.entry5),
            DataType |-> HexDigits(<<0, 0, 0, 6>>), AccessType |-> Text("rw")]
      [] k = 6 ->
           [ParameterName |-> Text("SYNC start value"),
            DataType |-> HexDigits(<<0, 0, 0, 5>>), AccessType |-> Text("rw")]

\* one pass of the creating loop for a PDO i that does not exist yet
add_compact_one(cfg, pdo, compact_pdo, i) ==
    IF <<"OptionalObjects">> \notin DOMAIN cfg
       \/ "SupportedObjects" \notin DOMAIN cfg[<<"OptionalObjects">>]
    THEN Raise("KeyError")
    ELSE
      LET n == python_int(cfg[<<"OptionalObjects">>]["SupportedObjects"], 0)
          comm == pdo.comm + i
          set == {k \in 1 .. 6 : Bit(compact_pdo, k - 1)}
          sub_number == 1 + Cardinality(set)
          sub_index == IF set = {} THEN 0 ELSE Max(set)
          has_mapping == ObjName(comm + \h200) \in DOMAIN cfg
          list == cfg[<<"OptionalObjects">>]
          list1 == Set(Set(list, "SupportedObjects", Dec(n.value + 1)),
                       ToString(n.value + 1), Hex(comm))
          list2 == IF has_mapping THEN list1
                   ELSE Set(Set(list1, "SupportedObjects", Dec(n.value + 2)),
                            ToString(n.value + 2), Hex(comm + \h200))
          created ==
              [x \in {ObjName(comm), SubName(comm, 0)} \cup {SubName(comm, k) : k \in set}
                     \cup (IF has_mapping THEN {} ELSE {ObjName(comm + \h200)}) |->
                  IF x = ObjName(comm)
                  THEN [SubNumber |-> Dec(sub_number), ParameterName |-> Text(pdo.comm_name),
                        ObjectType |-> HexDigits(<<0, 9>>)]
                  ELSE IF x = SubName(comm, 0)
                  THEN [ParameterName |-> Text("highest sub-index supported"),
                        DataType |-> HexDigits(<<0, 0, 0, 5>>),
                        AccessType |-> Text("const"), DefaultValue |-> Dec(sub_index)]
                  ELSE IF x = ObjName(comm + \h200)
                  THEN [ParameterName |-> Text(pdo.mapping_name),
                        ObjectType |-> HexDigits(<<0, 9>>),
                        DataType |-> HexDigits(<<0, 0, 0, 7>>),
                        AccessType |-> Text("rw"), CompactSubObj |-> Hex(\h40)]
                  ELSE compact_sub(pdo, i, x[3])]
      IN  IF n.exc # "" THEN n
          ELSE Ok(Force([x \in DOMAIN cfg \cup DOMAIN created |->
                      IF x = <<"OptionalObjects">> THEN list2
                      ELSE IF x \in DOMAIN created THEN created[x] ELSE cfg[x]]))

\* the creating loop from pass i on, count being the running npdo
RECURSIVE add_compact_loop(_, _, _, _, _, _)
add_compact_loop(cfg, pdo, compact_pdo, nr_of_pdo, count, i) ==
    IF i = 512 \/ nr_of_pdo <= count THEN Ok(cfg)
    ELSE IF ObjName(pdo.comm + i) \in DOMAIN cfg
    THEN add_compact_loop(cfg, pdo, compact_pdo, nr_of_pdo, count, i + 1)
    ELSE CHOOSE out \in {
             IF one.exc # "" THEN one
             ELSE add_compact_loop(one.value, pdo, compact_pdo, nr_of_pdo, count + 1,
                                   i + 1)
           : one \in {add_compact_one(cfg, pdo, compact_pdo, i)}} : TRUE

\* the body shared by __add_compact_rpdo and __add_compact_tpdo, which differ in
\* the fields of pdo only
add_compact_pdo(cfg, pdo) ==
    IF <<"DeviceInfo">> \notin DOMAIN cfg THEN Ok(cfg)
    ELSE
      LET section == cfg[<<"DeviceInfo">>]
          compact_pdo == IntOr(section, "CompactPDO", 0)
          nr_of_pdo == IntOr(section, pdo.nr_of_pdo, 0)
      IN  IF compact_pdo.exc # "" THEN compact_pdo
          ELSE IF compact_pdo.value = 0 THEN Ok(cfg)
          ELSE IF nr_of_pdo.exc # "" THEN nr_of_pdo
          ELSE add_compact_loop(cfg, pdo, compact_pdo.value, nr_of_pdo.value,
                                npdo(cfg, pdo.comm), 0)

add_compact_rpdo(cfg) ==
    add_compact_pdo(cfg, [comm |-> \h1400, nr_of_pdo |-> "NrOfRxPDO", base |-> \h100,
                          comm_name |-> "RPDO communication parameter",
                          mapping_name |-> "RPDO mapping parameter",
                          cob_id |-> "COB-ID used by RPDO",
                          entry4 |-> "compatibility entry", entry5 |-> "event-timer"])

add_compact_tpdo(cfg) ==
    add_compact_pdo(cfg, [comm |-> \h1800, nr_of_pdo |-> "NrOfTxPDO", base |-> \h80,
                          comm_name |-> "TPDO communication parameter",
                          mapping_name |-> "TPDO mapping parameter",
                          cob_id |-> "COB-ID used by TPDO",
                          entry4 |-> "reserved", entry5 |-> "event timer"])

\* the two calls at the end of parse_file, on the store read from the file
parse_file(cfg) ==
    CHOOSE out \in {
        IF rpdo.exc # "" THEN rpdo ELSE add_compact_tpdo(rpdo.value)
      : rpdo \in {add_compact_rpdo(cfg)}} : TRUE

(***************************************************************************)
(* dcf/device.py: AccessType, SubObject, Object                            *)
(***************************************************************************)
\* str.lower() on the spellings of an access type
Lower(t) ==
    CASE t = "RO" -> "ro" [] t = "WO" -> "wo" [] t = "RW" -> "rw"
      [] t = "RWR" -> "rwr" [] t = "RWW" -> "rww" [] t = "CONST" -> "const"
      [] t = "Const" -> "const" [] OTHER -> t

AccessType_init(access_type) ==
    LET name == Lower(access_type.text)
    IN  IF access_type.form = "text" /\ name \in {"ro", "wo", "rw", "rwr", "rww", "const"}
        THEN Ok([name |-> name,
                 read |-> name # "wo",
                 write |-> name \in {"wo", "rw", "rwr", "rww"},
                 tpdo |-> name = "rwr",
                 rpdo |-> name = "rww"])
        ELSE Raise("ValueError")

\* the SubObject record: cfg names the store the sub-object was built from ("dcf":
\* the device's store; "dummy": the store Object.from_dummy synthesizes)
SubObject(cfg, index, sub_index, env, access_type, data_type, default_value, value, pdo_mapping) ==
    [cfg |-> cfg, index |-> index, sub_index |-> sub_index, env |-> env,
     access_type |-> access_type, data_type |-> data_type,
     default_value |-> default_value, value |-> value, pdo_mapping |-> pdo_mapping]

SubObject_parse_value(self) == Value_parse(self.value, self.env)

\* SubObject.from_section
SubObject_from_section(cfg, section, index, sub_index, env) ==
    LET name == Get(section, "ParameterName")
        access == Get(section, "AccessType")
        access_type == AccessType_init(access.value)
        dt == Get(section, "DataType")
        data_type == python_int(dt.value, 0)
        low == IF DataType_is_basic(data_type.value) /\ Has(section, "LowLimit")
               THEN Value_init(data_type.value, section["LowLimit"]) ELSE Ok(None)
        high == IF DataType_is_basic(data_type.value) /\ Has(section, "HighLimit")
                THEN Value_init(data_type.value, section["HighLimit"]) ELSE Ok(None)
        default == IF Has(section, "DefaultValue") THEN section["DefaultValue"]
                   ELSE DataType_default_value(data_type.value)
        val == IF Has(section, "ParameterValue") THEN section["ParameterValue"]
               ELSE default
        default_value == Value_init(data_type.value, default)
        value == Value_init(data_type.value, val)
        pdo_mapping == IntOr(section, "PDOMapping", 0)
    IN  IF name.exc # "" THEN name
        ELSE IF access.exc # "" THEN access
        ELSE IF access_type.exc # "" THEN access_type
        ELSE IF dt.exc # "" THEN dt
        ELSE IF data_type.exc # "" THEN data_type
        ELSE IF FirstExc(<<low, high, default_value, value, pdo_mapping>>) # ""
        THEN Raise(FirstExc(<<low, high, default_value, value, pdo_mapping>>))
        ELSE Ok(SubObject(cfg, index, sub_index, env, access_type.value,
                          data_type.value, default_value.value, value.value,
                          pdo_mapping.value # 0))

\* SubObject.from_number
SubObject_from_number(cfg, index, number, env) ==
    LET access_type == AccessType_init(Text("ro"))
        default_value == Value_init(\h0005, Dec(number))
    IN  Ok(SubObject(cfg, index, 0, env, access_type.value, \h0005,
                     default_value.value, default_value.value, FALSE))

\* SubObject.from_compact_sub_obj; `value = subobj.parameter_value = True` makes
\* Value.__init__ fail on True.upper() for a basic type
SubObject_from_compact_sub_obj(store, cfg, index, sub_index, env) ==
    LET section == store[ObjName(index)]
        named == NameName(index) \in DOMAIN store
                 /\ ToString(sub_index) \in DOMAIN store[NameName(index)]
        name == IF named THEN Ok(store[NameName(index)][ToString(sub_index)])
                ELSE Get(section, "ParameterName")
        access == Get(section, "AccessType")
        access_type == AccessType_init(access.value)
        dt == Get(section, "DataType")
        data_type == python_int(dt.value, 0)
        default == IF Has(section, "DefaultValue") THEN section["DefaultValue"]
                   ELSE DataType_default_value(data_type.value)
        val == IF ValueName(index) \in DOMAIN store
               THEN IF Has(store[ValueName(index)], ToString(sub_index))
                    THEN store[ValueName(index)][ToString(sub_index)] ELSE default
               ELSE IF Has(section, "ParameterValue") THEN Text("True")
               ELSE default
        default_value == Value_init(data_type.value, default)
        value == IF ValueName(index) \notin DOMAIN store /\ Has(section, "ParameterValue")
                    /\ DataType_is_basic(data_type.value)
                 THEN Raise("AttributeError")
                 ELSE Value_init(data_type.value, val)
        pdo_mapping == IntOr(section, "PDOMapping", 0)
    IN  IF name.exc # "" THEN name
        ELSE IF access.exc # "" THEN access
        ELSE IF access_type.exc # "" THEN access_type
        ELSE IF dt.exc # "" THEN dt
        ELSE IF data_type.exc # "" THEN data_type
        ELSE IF FirstExc(<<default_value, value, pdo_mapping>>) # ""
        THEN Raise(FirstExc(<<default_value, value, pdo_mapping>>))
        ELSE Ok(SubObject(cfg, index, sub_index, env, access_type.value,
                          data_type.value, default_value.value, value.value,
                          pdo_mapping.value # 0))

\* Object.__init__: the Object is its index, its object type and the dict `sub`
\* of its sub-objects
Object_init(store, cfg, index, env) ==
    IF ObjName(index) \notin DOMAIN store THEN Raise("KeyError")
    ELSE
      LET section == store[ObjName(index)]
          name == Get(section, "ParameterName")
          object_type == IntOr(section, "ObjectType", \h07)
          sub_number == IntOr(section, "SubNumber", 0)
          compact_sub_obj == IntOr(section, "CompactSubObj", 0)
          head == FirstExc(<<name, object_type, sub_number, compact_sub_obj>>)
      IN  IF head # "" THEN Raise(head)
          ELSE CHOOSE out \in {
                   IF subs.exc # "" THEN subs
                   ELSE Ok([index |-> index, object_type |-> object_type.value,
                            sub |-> subs.value])
                 : subs \in {
                     IF sub_number.value # 0
                     THEN Collect([k \in {x \in 0 .. 254 : SubName(index, x) \in DOMAIN store} |->
                              SubObject_from_section(cfg, store[SubName(index, k)], index,
                                                     k, env)])
                     ELSE IF compact_sub_obj.value # 0
                     THEN Collect([k \in 0 .. compact_sub_obj.value |->
                              IF k = 0
                              THEN SubObject_from_number(cfg, index, compact_sub_obj.value, env)
                              ELSE SubObject_from_compact_sub_obj(store, cfg, index, k, env)])
                     ELSE Collect([k \in {0} |->
                              SubObject_from_section(cfg, section, index, 0, env)])}} : TRUE

\* Object.from_dummy: an Object over a synthesized one-section store, with the
\* env that Object.__init__ substitutes for None
Object_from_dummy(index) ==
    IF index \notin NamedTypes THEN Raise("KeyError")   \* DataType(index).name()
    ELSE Object_init(
           ObjName(index) :>
               [ParameterName |-> Text("DataType.name"), ObjectType |-> Hex(\h05),
                DataType |-> Hex(index), AccessType |-> Text("rw"),
                PDOMapping |-> Dec(1)],
           "dummy", index, [k \in {} |-> 0])

(***************************************************************************)
(* dcf/device.py: PDO                                                      *)
(***************************************************************************)
PDO_init ==
    [cob_id |-> OrBit31(0), transmission_type |-> 0, inhibit_time |-> 0,
     event_timer |-> 0, event_deadline |-> 0, sync_start_value |-> 0, n |-> 0,
     mapping |-> [i \in {} |-> 0]]

ReadSub_mutant(cond, obj, sub_index, default) ==
    IF sub_index \in DOMAIN obj.sub
    THEN SubObject_parse_value(obj.sub[sub_index]) ELSE Ok(default)

\* obj[sub_index].parse_value() if `cond and sub_index in obj`, else the default
ReadSub(cond, obj, sub_index, default) ==
    IF cond /\ sub_index \in DOMAIN obj.sub
    THEN SubObject_parse_value(obj.sub[sub_index]) ELSE Ok(default)

\* the mark of a slot of pdo.mapping that the loop leaves without an entry
Unmapped == [cfg |-> "unmapped"]

PDO_mapped_mutant(dev, index, sub_index) ==
    IF index < \h1000
    THEN CHOOSE out \in {
             IF dummy.exc # "" THEN dummy ELSE Ok(dummy.value.sub[0])
           : dummy \in {Object_from_dummy(index)}} : TRUE
    ELSE IF index \in DOMAIN dev /\ sub_index \in DOMAIN dev[index].sub
    THEN Ok(dev[index].sub[sub_index])
    ELSE Raise("KeyError")

\* the sub-object that a non-zero mapping word names: Object.from_dummy(index)[sub_index]
\* below 0x1000, dev[index][sub_index] from there on
PDO_mapped(dev, index, sub_index) ==
    IF index < \h1000
    THEN CHOOSE out \in {
             IF dummy.exc # "" THEN dummy
             ELSE IF sub_index \in DOMAIN dummy.value.sub
             THEN Ok(dummy.value.sub[sub_index])
             ELSE Raise("KeyError")
           : dummy \in {Object_from_dummy(index)}} : TRUE
    ELSE IF index \in DOMAIN dev /\ sub_index \in DOMAIN dev[index].sub
    THEN Ok(dev[index].sub[sub_index])
    ELSE Raise("KeyError")

\* one pass of the mapping loop of PDO.from_device: the sub-object slot i resolves
\* to, Ok(Unmapped) when the slot stays unmapped
PDO_resolve(dev, pdo_mapping, i) ==
    IF i \notin DOMAIN pdo_mapping.sub THEN Ok(Unmapped)
    ELSE CHOOSE out \in {
             IF value.exc # "" THEN value
             ELSE IF value.value = 0 THEN Ok(Unmapped)
             ELSE PDO_mapped(dev, (value.value \div 65536) % 65536,
                             (value.value \div 256) % 256)
           : value \in {SubObject_parse_value(pdo_mapping.sub[i])}} : TRUE

PDO_is_tpdo_mutant(index) == (index \div 512) * 512 = \h1400

\* is_tpdo = (index & 0xFE00) == 0x1800
PDO_is_tpdo(index) == (index \div 512) * 512 = \h1800

\* the second half of PDO.from_device: pdo.n and pdo.mapping from the mapping
\* parameter pdo_mapping, added to the communication fields pdo
PDO_mapping(dev, pdo_mapping, pdo) ==
    LET n == ReadSub(TRUE, pdo_mapping, 0, 0)
    IN  IF n.exc # "" THEN n
        ELSE CHOOSE out \in {
                 IF slots.exc # "" THEN slots
                 ELSE Ok(pdo @@
                         [n |-> n.value,
                          mapping |-> Force([i \in {j \in 1 .. n.value :
                                                     slots.value[j] # Unmapped} |->
                                                slots.value[i]])])
               : slots \in {Collect([i \in 1 .. n.value |->
                               PDO_resolve(dev, pdo_mapping, i)])}} : TRUE

\* PDO.from_device(dev, index), dev being the dict of the device's objects
PDO_from_device(dev, index) ==
    LET is_tpdo == PDO_is_tpdo(index)
        pdo_comm == dev[index]
        n == ReadSub(TRUE, pdo_comm, 0, 0)
    IN  IF n.exc # "" THEN n
        ELSE CHOOSE out \in {
                 IF comm.exc # "" THEN comm
                 ELSE IF index + \h200 \notin DOMAIN dev THEN Raise("KeyError")
                 ELSE PDO_mapping(dev, dev[index + \h200],
                                  [cob_id |-> comm.value[1],
                                   transmission_type |-> comm.value[2],
                                   inhibit_time |-> comm.value[3],
                                   event_timer |-> IF is_tpdo THEN comm.value[5] ELSE 0,
                                   event_deadline |-> IF is_tpdo THEN 0 ELSE comm.value[5],
                                   sync_start_value |-> comm.value[6]])
               : comm \in {Collect([k \in {1, 2, 3, 5, 6} |->
                              ReadSub(n.value >= k /\ (k \in {3, 6} => is_tpdo), pdo_comm, k,
                                      IF k = 1 THEN PDO_init.cob_id ELSE 0)])}} : TRUE

(***************************************************************************)
(* dcf/device.py: Device                                                   *)
(***************************************************************************)
\* the indices listed in one of the three object lists, in listing order
ListedObjects(store, section) ==
    IF <<section>> \notin DOMAIN store THEN Raise("KeyError")
    ELSE
      LET list == store[<<section>>]
          n == IF "SupportedObjects" \in DOMAIN list
               THEN python_int(list["SupportedObjects"], 10) ELSE Raise("KeyError")
      IN  IF n.exc # "" THEN n
          ELSE CHOOSE out \in {
                   IF entries.exc # "" THEN entries
                   ELSE Ok({entries.value[i] : i \in 1 .. n.value})
                 : entries \in {Collect([i \in 1 .. n.value |->
                                   IF ToString(i) \in DOMAIN list
                                   THEN python_int(list[ToString(i)], 0)
                                   ELSE Raise("KeyError")])}} : TRUE

\* self[index][sub_index].parse_value()
Item(obj, index, sub_index) ==
    IF index \in DOMAIN obj /\ sub_index \in DOMAIN obj[index].sub
    THEN SubObject_parse_value(obj[index].sub[sub_index]) ELSE Raise("KeyError")

\* the same inside `try: ... except KeyError: 0`
ItemOrZero(obj, index, sub_index) ==
    LET v == Item(obj, index, sub_index) IN IF v.exc = "KeyError" THEN Ok(0) ELSE v

\* one cross-check of an identity field with a key of [DeviceInfo] or
\* [DeviceComissioning]: <<outcome of the field, warnings>>
Identity_mutant(store, section, key, field) ==
    IF <<section>> \in DOMAIN store /\ Has(store[<<section>>], key)
    THEN LET v == python_int(store[<<section>>][key], 0)
         IN  IF v.exc # "" THEN <<v, <<>>>>
             ELSE <<v, IF field # v.value THEN <<key>> ELSE <<>>>>
    ELSE <<Ok(field), <<>>>>

Identity(store, section, key, field) ==
    IF <<section>> \in DOMAIN store /\ Has(store[<<section>>], key)
    THEN LET v == python_int(store[<<section>>][key], 0)
         IN  IF v.exc # "" THEN <<v, <<>>>>
             ELSE <<v, IF field # 0 /\ field # v.value THEN <<key>> ELSE <<>>>>
    ELSE <<Ok(field), <<>>>>

\* `self.field = e` for an expression with the outcome e: the exception stops
\* __init__
Assign(self, field, e) ==
    CHOOSE out \in {
        IF v.exc # "" THEN [self EXCEPT !.exc = v.exc] ELSE [self EXCEPT ![field] = v.value]
      : v \in {e}} : TRUE

\* the loop over the three object lists: the dict of the Objects listed
Device_objects(store, env) ==
    CHOOSE out \in {
        IF lists.exc # "" THEN lists
        ELSE Collect([index \in UNION {lists.value[j] : j \in 1 .. 3} |->
                         Object_init(store, "dcf", index, env)])
      : lists \in {Collect([j \in 1 .. 3 |->
                      ListedObjects(store, <<"MandatoryObjects", "OptionalObjects",
                                             "ManufacturerObjects">>[j])])}} : TRUE

\* one cross-check in the state self of __init__: the field is replaced, the
\* warning emitted
Device_cross_check(self, store, section, key, field) ==
    CHOOSE out \in {
        IF r[1].exc # "" THEN [self EXCEPT !.exc = r[1].exc]
        ELSE [self EXCEPT ![field] = r[1].value, !.warnings = @ \o r[2]]
      : r \in {Identity(store, section, key, self[field])}} : TRUE

\* the loops that fill self.rpdo (comm 0x1400) and self.tpdo (comm 0x1800)
Device_pdo(obj, comm) ==
    Collect([i \in {k \in 1 .. 512 : comm + k - 1 \in DOMAIN obj} |->
                PDO_from_device(obj, comm + i - 1)])

\* statement k of Device.__init__ after the node-ID, in the order of the code
Device_block(k, self, store) ==
    CASE k = 1 -> Assign(self, "obj", Device_objects(store, self.env))
      [] k = 2 -> Assign(self, "device_type", Item(self.obj, \h1000, 0))
      [] k = 3 -> Assign(self, "vendor_id", Item(self.obj, \h1018, 1))
      [] k = 4 -> Assign(self, "product_code", ItemOrZero(self.obj, \h1018, 2))
      [] k = 5 -> Assign(self, "revision_number", ItemOrZero(self.obj, \h1018, 3))
      [] k = 6 -> Assign(self, "serial_number", ItemOrZero(self.obj, \h1018, 4))
      [] k = 7 -> Device_cross_check(self, store, "DeviceInfo", "VendorNumber", "vendor_id")
      [] k = 8 -> Device_cross_check(self, store, "DeviceInfo", "ProductNumber",
                                     "product_code")
      [] k = 9 -> Device_cross_check(self, store, "DeviceInfo", "RevisionNumber",
                                     "revision_number")
      [] k = 10 -> Device_cross_check(self, store, "DeviceComissioning",
                                      "LSS_SerialNumber", "serial_number")
      [] k = 11 -> Assign(self, "error_behavior",
                          IF \h1029 \in DOMAIN self.obj
                          THEN Collect([j \in DOMAIN self.obj[\h1029].sub \ {0} |->
                                           Item(self.obj, \h1029, j)])
                          ELSE Ok(EmptyDict))
      [] k = 12 -> Assign(self, "rpdo", Device_pdo(self.obj, \h1400))
      [] k = 13 -> Assign(self, "tpdo", Device_pdo(self.obj, \h1800))

\* the statements from k on, up to the end of __init__ or the first exception
RECURSIVE Device_blocks(_, _, _)
Device_blocks(k, self, store) ==
    IF k > 13 \/ self.exc # "" THEN self
    ELSE CHOOSE out \in {Device_blocks(k + 1, next, store)
                           : next \in {Device_block(k, self, store)}} : TRUE

Device_init_mutant(store, env0) ==
    LET from_cfg == "NODEID" \notin DOMAIN env0
                    /\ <<"DeviceComissioning">> \in DOMAIN store
                    /\ "NodeID" \in DOMAIN store[<<"DeviceComissioning">>]
        node == IF from_cfg THEN python_int(store[<<"DeviceComissioning">>]["NodeID"], 0)
                ELSE Ok(0)
        env == IF from_cfg
               THEN [k \in DOMAIN env0 \cup {"NODEID"} |->
                        IF k = "NODEID" THEN node.value ELSE env0[k]]
               ELSE env0
        node_id == IF "NODEID" \in DOMAIN env THEN env["NODEID"] ELSE 255
    IN  IF node.exc # "" THEN <<node, <<>>>>
        ELSE CHOOSE out \in {
                 <<IF self.exc # "" THEN Raise(self.exc)
                   ELSE Ok([f \in DOMAIN self \ {"exc", "warnings"} |-> self[f]]),
                   self.warnings>>
               : self \in {
                   Device_blocks(1,
                       [exc |-> "",
                        warnings |-> <<>>,
                        env |-> env, node_id |-> node_id, obj |-> EmptyDict,
                        device_type |-> 0, vendor_id |-> 0, product_code |-> 0,
                        revision_number |-> 0, serial_number |-> 0,
                        error_behavior |-> EmptyDict, rpdo |-> EmptyDict,
                        tpdo |-> EmptyDict],
                       store)}} : TRUE

\* Device.__init__: <<outcome, warnings>>, the outcome being the Device (its env
\* and its dict `obj` of Objects included) or the exception that leaves __init__
Device_init(store, env0) ==
    LET from_cfg == "NODEID" \notin DOMAIN env0
                    /\ <<"DeviceComissioning">> \in DOMAIN store
                    /\ "NodeID" \in DOMAIN store[<<"DeviceComissioning">>]
        node == IF from_cfg THEN python_int(store[<<"DeviceComissioning">>]["NodeID"], 0)
                ELSE Ok(0)
        env == IF from_cfg
               THEN [k \in DOMAIN env0 \cup {"NODEID"} |->
                        IF k = "NODEID" THEN node.value ELSE env0[k]]
               ELSE env0
        node_id == IF "NODEID" \in DOMAIN env THEN env["NODEID"] ELSE 255
    IN  IF node.exc # "" THEN <<node, <<>>>>
        ELSE CHOOSE out \in {
                 <<IF self.exc # "" THEN Raise(self.exc)
                   ELSE Ok([f \in DOMAIN self \ {"exc", "warnings"} |-> self[f]]),
                   self.warnings>>
               : self \in {
                   Device_blocks(1,
                       [exc |-> "",
                        warnings |-> IF (node_id < 1 \/ node_id > 127) /\ node_id # 255
                                     THEN <<"node-ID">> ELSE <<>>,
                        env |-> env, node_id |-> node_id, obj |-> EmptyDict,
                        device_type |-> 0, vendor_id |-> 0, product_code |-> 0,
                        revision_number |-> 0, serial_number |-> 0,
                        error_behavior |-> EmptyDict, rpdo |-> EmptyDict,
                        tpdo |-> EmptyDict],
                       store)}} : TRUE

(***************************************************************************)
(* dcfgen/cli.py: the YAML overlay.  A node of the loaded YAML is a record *)
(* of one shape: an int, a bool, a str, a list (items: the nodes) or a     *)
(* mapping (items: the <<key node, value node>> pairs in file order).      *)
(***************************************************************************)
YInt(n) == [kind |-> "int", int |-> n, str |-> "", items |-> <<>>]
YBool(b) == [kind |-> "bool", int |-> IF b THEN 1 ELSE 0, str |-> "", items |-> <<>>]
YStr(t) == [kind |-> "str", int |-> 0, str |-> t, items |-> <<>>]
YList(items) == [kind |-> "list", int |-> 0, str |-> "", items |-> items]
YMap(items) == [kind |-> "map", int |-> 0, str |-> "", items |-> items]

\* `key in cfg` and cfg[key], for a string key of a mapping
YHas(cfg, key) == \E j \in 1 .. Len(cfg.items) : cfg.items[j][1] = YStr(key)
YGet(cfg, key) ==
    cfg.items[CHOOSE j \in 1 .. Len(cfg.items) : cfg.items[j][1] = YStr(key)][2]

\* int(node): the strings of the overlays modelled here are not numerals
python_int_node(node) ==
    CASE node.kind \in {"int", "bool"} -> Ok(node.int)
      [] node.kind = "str" -> Raise("ValueError")
      [] OTHER -> Raise("TypeError")

\* bool(node)
python_bool(node) ==
    CASE node.kind \in {"int", "bool"} -> node.int # 0
      [] node.kind = "str" -> node.str # ""
      [] OTHER -> Len(node.items) > 0

\* x << 16 and x & 0xFFFF on a 32-bit word
Shl16(x) ==
    IF x % 65536 >= 32768 THEN ((x % 65536) - 65536) * 65536 ELSE (x % 65536) * 65536

(***************************************************************************)
(* dcfgen/cli.py: Slave.  The running state of a configurator is a record  *)
(* st: the exception raised so far ("" for none), the warnings emitted,    *)
(* the records appended (sdo), and what the code at hand mutates.          *)
(***************************************************************************)
Emit_mutant(st, obj, index, sub_index, value) ==
    IF st.exc # "" THEN st
    ELSE IF index \notin DOMAIN obj THEN [st EXCEPT !.exc = "KeyError"]
    ELSE IF sub_index \in DOMAIN obj[index].sub
    THEN LET subobj == obj[index].sub[sub_index]
             w == IF subobj.access_type.write THEN <<>>
                  ELSE <<<<"no write access", index, sub_index>>>>
             r == DataType_concise_value(subobj.data_type, index, sub_index, value)
         IN  IF r.exc # "" THEN [st EXCEPT !.exc = r.exc, !.warnings = @ \o w]
             ELSE [st EXCEPT !.warnings = @ \o w, !.sdo = <<r.value>> \o @]
    ELSE IF sub_index = 0 /\ DOMAIN obj[index].sub # {}
    THEN LET r == DataType_concise_value(\h0005, index, 0, value)
         IN  IF r.exc # "" THEN [st EXCEPT !.exc = r.exc]
             ELSE [st EXCEPT !.sdo = <<r.value>> \o @]
    ELSE [st EXCEPT !.exc = "KeyError"]

\* sdo.append(self.concise_value(index, sub_index, value)) in the state st; obj
\* is the dict of the slave's objects
Emit(st, obj, index, sub_index, value) ==
    IF st.exc # "" THEN st
    ELSE IF index \notin DOMAIN obj THEN [st EXCEPT !.exc = "KeyError"]
    ELSE IF sub_index \in DOMAIN obj[index].sub
    THEN LET subobj == obj[index].sub[sub_index]
             w == IF subobj.access_type.write THEN <<>>
                  ELSE <<<<"no write access", index, sub_index>>>>
             r == DataType_concise_value(subobj.data_type, index, sub_index, value)
         IN  IF r.exc # "" THEN [st EXCEPT !.exc = r.exc, !.warnings = @ \o w]
             ELSE [st EXCEPT !.warnings = @ \o w, !.sdo = Append(@, r.value)]
    ELSE IF sub_index = 0 /\ DOMAIN obj[index].sub # {}
    THEN LET r == DataType_concise_value(\h0005, index, 0, value)
         IN  IF r.exc # "" THEN [st EXCEPT !.exc = r.exc]
             ELSE [st EXCEPT !.sdo = Append(@, r.value)]
    ELSE [st EXCEPT !.exc = "KeyError"]

\* pdo_cob_id with a pool that hands out its value without advancing
pdo_cob_id_mutant(st, cfg, comm_idx, node_id) ==
    IF ~YHas(cfg, "cob_id") THEN st
    ELSE IF YGet(cfg, "cob_id") = YStr("auto")
    THEN IF comm_idx % 512 < 4
         THEN [st EXCEPT !.pdo.cob_id =
                   ((comm_idx % 512) + 1) * \h100
                       + (IF PDO_is_tpdo(comm_idx) THEN \h80 ELSE \h100) + node_id]
         ELSE IF st.options.cob_id >= \h6E0
         THEN [st EXCEPT !.pdo.cob_id = st.options.cob_id, !.exc = "ValueError"]
         ELSE [st EXCEPT !.pdo.cob_id = st.options.cob_id]
    ELSE IF python_int_node(YGet(cfg, "cob_id")).exc # ""
    THEN [st EXCEPT !.exc = python_int_node(YGet(cfg, "cob_id")).exc]
    ELSE [st EXCEPT !.pdo.cob_id = python_int_node(YGet(cfg, "cob_id")).value]

\* the head of __parse_pdo_config: pdo.cob_id from cfg["cob_id"]
pdo_cob_id(st, cfg, comm_idx, node_id) ==
    LET i == comm_idx % 512
        given == python_int_node(YGet(cfg, "cob_id"))
    IN  IF ~YHas(cfg, "cob_id") THEN st
        ELSE IF YGet(cfg, "cob_id") = YStr("auto")
        THEN IF i < 4
             THEN [st EXCEPT !.pdo.cob_id =
                       (i + 1) * \h100 + (IF PDO_is_tpdo(comm_idx) THEN \h80 ELSE \h100)
                           + node_id]
             ELSE IF st.options.cob_id >= \h6E0
             THEN [st EXCEPT !.pdo.cob_id = st.options.cob_id, !.exc = "ValueError"]
             ELSE [st EXCEPT !.pdo.cob_id = st.options.cob_id,
                             !.options.cob_id = st.options.cob_id + 1]
        ELSE IF given.exc # "" THEN [st EXCEPT !.exc = given.exc]
        ELSE [st EXCEPT !.pdo.cob_id = given.value]

\* one of the blocks `if key in cfg: v = int(cfg[key]); if v != pdo.field: ...`;
\* emit says whether the block appends a record, and the record carries the
\* local variable event_timer when the block is the one of event_deadline
pdo_field(st, obj, cfg, key, field, comm_idx, sub_index, emit) ==
    LET v == python_int_node(YGet(cfg, key))
        st1 == IF key = "event_timer" THEN [st EXCEPT !.event_timer = <<v.value>>]
               ELSE st
        st2 == [st1 EXCEPT !.pdo[field] = v.value]
    IN  IF st.exc # "" \/ ~YHas(cfg, key) THEN st
        ELSE IF v.exc # "" THEN [st EXCEPT !.exc = v.exc]
        ELSE IF v.value = st.pdo[field] THEN st1
        ELSE IF ~emit THEN st2
        ELSE IF key # "event_deadline" THEN Emit(st2, obj, comm_idx, sub_index, v.value)
        ELSE IF st2.event_timer = <<>> THEN [st2 EXCEPT !.exc = "UnboundLocalError"]
        ELSE Emit(st2, obj, comm_idx, sub_index, st2.event_timer[1])

\* the loop over cfg["mapping"] from entry k on; size and n are its locals
RECURSIVE pdo_mapping_loop(_, _, _, _, _, _, _)
pdo_mapping_loop(st, obj, items, map_idx, k, size, n) ==
    IF st.exc # "" THEN st
    ELSE IF k > Len(items)
    THEN IF size > 64 THEN [st EXCEPT !.warnings = Append(@, <<"exceeds 64 bits", map_idx>>)]
         ELSE st
    ELSE
      LET pdo_mapping == items[k]
          index == IF pdo_mapping.kind = "map" /\ YHas(pdo_mapping, "index")
                   THEN python_int_node(YGet(pdo_mapping, "index")) ELSE Raise("KeyError")
          sub_index == IF YHas(pdo_mapping, "sub_index")
                       THEN python_int_node(YGet(pdo_mapping, "sub_index")) ELSE Ok(0)
          subobj == obj[index.value].sub[sub_index.value]
          bits == DataType_bits(subobj.data_type)
          value == Shl16(index.value) + (sub_index.value % 256) * 256 + (bits % 256)
          w == IF subobj.pdo_mapping THEN <<>>
               ELSE <<<<"no PDO mapping", index.value, sub_index.value>>>>
          st1 == [st EXCEPT !.warnings = @ \o w,
                            !.pdo.mapping = [j \in 1 .. n + 1 |->
                                                IF j = n + 1 THEN subobj
                                                ELSE st.pdo.mapping[j]]]
      IN  IF index.exc # "" THEN [st EXCEPT !.exc = index.exc]
          ELSE IF sub_index.exc # "" THEN [st EXCEPT !.exc = sub_index.exc]
          ELSE IF index.value \in DOMAIN obj /\ sub_index.value \in DOMAIN obj[index.value].sub
          THEN CHOOSE out \in {
                   pdo_mapping_loop(st2, obj, items, map_idx, k + 1, size + bits, n + 1)
                 : st2 \in {Emit(st1, obj, map_idx, n + 1, value)}} : TRUE
          ELSE [st EXCEPT !.exc = "KeyError"]

\* the block `if "mapping" in cfg:` of __parse_pdo_config
pdo_mapping_config(st, obj, cfg, map_idx) ==
    LET items == YGet(cfg, "mapping").items
        st1 == IF st.pdo.n > 0 \/ Len(items) > 0
               THEN Emit([st EXCEPT !.pdo.n = 0, !.pdo.mapping = <<>>], obj, map_idx, 0, 0)
               ELSE st
    IN  IF st.exc # "" \/ ~YHas(cfg, "mapping") THEN st
        ELSE CHOOSE out \in {
                 IF st2.exc # "" THEN st2
                 ELSE IF DOMAIN st2.pdo.mapping # {}
                 THEN Emit([st2 EXCEPT !.pdo.n = Cardinality(DOMAIN st2.pdo.mapping)], obj,
                           map_idx, 0, Cardinality(DOMAIN st2.pdo.mapping))
                 ELSE [st2 EXCEPT !.pdo.n = 0]
               : st2 \in {pdo_mapping_loop(st1, obj, items, map_idx, 1, 0, 0)}} : TRUE

pdo_disable_skipped(st, obj, comm_idx) == st

pdo_disable_mutant(st, obj, comm_idx) == Emit(st, obj, comm_idx, 1, OrBit31(st.cob_id))

\* the record appended under `if cob_id != pdo.cob_id | 0x80000000:`
pdo_disable(st, obj, comm_idx) == Emit(st, obj, comm_idx, 1, OrBit31(st.pdo.cob_id))

\* block k of __parse_pdo_config, in the order of the code; st.cob_id is the local
\* cob_id, the COB-ID that the PDO had on entry
parse_pdo_block(k, st, obj, node_id, comm_idx, cfg) ==
    LET is_tpdo == PDO_is_tpdo(comm_idx)
        enabled == IF YHas(cfg, "enabled") THEN python_bool(YGet(cfg, "enabled"))
                   ELSE python_bool(YStr("true"))
    IN  CASE k = 1 -> pdo_cob_id(st, cfg, comm_idx, node_id)
          [] k = 2 -> IF st.cob_id # OrBit31(st.pdo.cob_id) THEN pdo_disable(st, obj, comm_idx)
                      ELSE st
          [] k = 3 -> pdo_field(st, obj, cfg, "transmission", "transmission_type", comm_idx,
                                2, TRUE)
          [] k = 4 -> pdo_field(st, obj, cfg, "inhibit_time", "inhibit_time", comm_idx, 3,
                                is_tpdo)
          [] k = 5 -> pdo_field(st, obj, cfg, "event_timer", "event_timer", comm_idx, 5,
                                is_tpdo)
          [] k = 6 -> pdo_field(st, obj, cfg, "event_deadline", "event_deadline", comm_idx,
                                5, ~is_tpdo)
          [] k = 7 -> pdo_field(st, obj, cfg, "sync_start", "sync_start_value", comm_idx, 6,
                                is_tpdo)
          [] k = 8 -> pdo_mapping_config(st, obj, cfg, comm_idx + \h200)
          [] k = 9 -> IF enabled THEN Emit(st, obj, comm_idx, 1, st.pdo.cob_id) ELSE st

\* the blocks from k on, up to the return or the first exception; the blocks 3
\* to 9 are the body of `if not (pdo.cob_id & 0x80000000):`
RECURSIVE parse_pdo_blocks(_, _, _, _, _, _)
parse_pdo_blocks(k, st, obj, node_id, comm_idx, cfg) ==
    IF k > 9 \/ st.exc # "" \/ (k = 3 /\ HasBit31(st.pdo.cob_id)) THEN st
    ELSE CHOOSE out \in {parse_pdo_blocks(k + 1, next, obj, node_id, comm_idx, cfg)
                           : next \in {parse_pdo_block(k, st, obj, node_id, comm_idx, cfg)}} : TRUE

\* Slave.__parse_pdo_config(pdo, comm_idx, cfg, options) on the slave with the
\* objects obj and the node-ID node_id: the state st with the records in st.sdo,
\* the mutated pdo and options
parse_pdo_config(obj, node_id, pdo, comm_idx, cfg, options) ==
    parse_pdo_blocks(1, [exc |-> "", warnings |-> <<>>, sdo |-> <<>>, pdo |-> pdo,
                         options |-> options, cob_id |-> pdo.cob_id,
                         event_timer |-> <<>>],
                     obj, node_id, comm_idx, cfg)

\* Slave.__init__: the Device with the defaults of a Slave.  time_cobid is the
\* attribute that from_config assigns (<<>> while it does not exist); a path
\* or file name is the sequence of the strings it is joined from, "" being <<>>
Slave_init(device) ==
    [name |-> "", dcf_path |-> <<>>, time_cob_id |-> \h100, time_cobid |-> <<>>,
     emcy_cob_id |-> OrBit31(0), heartbeat_multiplier |-> 1,
     heartbeat_consumer |-> FALSE, heartbeat_producer |-> 0, retry_factor |-> 1,
     life_time_factor |-> 0, guard_time |-> 0, boot |-> TRUE, mandatory |-> FALSE,
     reset_communication |-> TRUE, software_file |-> "", software_version |-> 0,
     configuration_file |-> <<>>, restore_configuration |-> 0] @@ device

\* Slave.from_dcf: parse_file, then lint (its verdict on the file is lint_ok),
\* then Slave(cfg, env): <<outcome, warnings>>
Slave_from_dcf(dcf, env, lint_ok, no_strict) ==
    CHOOSE out \in {
        IF cfg.exc # "" THEN <<cfg, <<>>>>
        ELSE IF ~lint_ok /\ ~no_strict THEN <<Raise("ValueError"), <<>>>>
        ELSE CHOOSE out1 \in {
                 IF device[1].exc # "" THEN device
                 ELSE <<Ok(Slave_init(device[1].value)), device[2]>>
               : device \in {Device_init(cfg.value, env)}} : TRUE
      : cfg \in {parse_file(dcf)}} : TRUE

\* str(node)
python_str(node) == IF node.kind = "str" THEN node.str ELSE ToString(node.int)

\* the blocks of revision_number and serial_number
slave_identity(st, cfg, key) ==
    LET v == python_int_node(YGet(cfg, key))
        w == IF st.slave[key] # 0 /\ st.slave[key] # v.value THEN <<<<"differs", key>>>>
             ELSE <<>>
    IN  IF st.exc # "" \/ ~YHas(cfg, key) THEN st
        ELSE IF v.exc # "" THEN [st EXCEPT !.exc = v.exc]
        ELSE [st EXCEPT !.warnings = @ \o w, !.slave[key] = v.value]

\* the two blocks of object 0x1012: the object is read into the attribute
\* time_cobid, the overlay is compared with time_cob_id and stored in time_cobid
slave_time_cob_id(st, cfg) ==
    LET obj == st.slave.obj
        held == Item(obj, \h1012, 0)
        st1 == IF \h1012 \in DOMAIN obj THEN [st EXCEPT !.slave.time_cobid = <<held.value>>]
               ELSE st
        v == python_int_node(YGet(cfg, "time_cob_id"))
        st2 == IF st1.slave.time_cob_id = v.value THEN st1
               ELSE IF \h1012 \in DOMAIN obj THEN Emit(st1, obj, \h1012, 0, v.value)
               ELSE [st1 EXCEPT !.warnings = Append(@, <<"does not exist", \h1012>>)]
    IN  IF st.exc # "" THEN st
        ELSE IF \h1012 \in DOMAIN obj /\ held.exc # "" THEN [st EXCEPT !.exc = held.exc]
        ELSE IF ~YHas(cfg, "time_cob_id") THEN st1
        ELSE IF v.exc # "" THEN [st1 EXCEPT !.exc = v.exc]
        ELSE IF st2.exc # "" THEN st2
        ELSE [st2 EXCEPT !.slave.time_cobid = <<v.value>>]

\* the two blocks of heartbeat_producer (0x1017), guard_time (0x100C) and
\* life_time_factor (0x100D): the object is read into the field, then the overlay
\* is compared with the field, emitted and stored
slave_scalar(st, cfg, key, index) ==
    LET obj == st.slave.obj
        held == Item(obj, index, 0)
        st1 == IF index \in DOMAIN obj THEN [st EXCEPT !.slave[key] = held.value] ELSE st
        v == python_int_node(YGet(cfg, key))
        st2 == IF st1.slave[key] = v.value THEN st1
               ELSE IF index \in DOMAIN obj THEN Emit(st1, obj, index, 0, v.value)
               ELSE [st1 EXCEPT !.warnings = Append(@, <<"does not exist", index>>)]
    IN  IF st.exc # "" THEN st
        ELSE IF index \in DOMAIN obj /\ held.exc # "" THEN [st EXCEPT !.exc = held.exc]
        ELSE IF ~YHas(cfg, key) THEN st1
        ELSE IF v.exc # "" THEN [st1 EXCEPT !.exc = v.exc]
        ELSE IF st2.exc # "" THEN st2
        ELSE [st2 EXCEPT !.slave[key] = v.value]

\* the check that heartbeat and node guarding are not both configured
slave_guarding(st) ==
    IF st.exc = "" /\ st.slave.guard_time # 0 /\ st.slave.life_time_factor # 0
       /\ st.slave.heartbeat_producer # 0
    THEN [st EXCEPT !.warnings = Append(@, <<"heartbeat and node guarding">>),
                    !.slave.guard_time = 0, !.slave.life_time_factor = 0]
    ELSE st

\* one pass of the loop over cfg["error_behavior"].items()
slave_error_behavior_item(st, item) ==
    LET sub_index == python_int_node(item[1])
        value == python_int_node(item[2])
    IN  IF sub_index.exc # "" THEN [st EXCEPT !.exc = sub_index.exc]
        ELSE IF sub_index.value \notin DOMAIN st.slave.error_behavior
        THEN [st EXCEPT !.warnings =
                  Append(@, <<"does not exist", \h1029, sub_index.value>>)]
        ELSE IF value.exc # "" THEN [st EXCEPT !.exc = value.exc]
        ELSE IF value.value = st.slave.error_behavior[sub_index.value] THEN st
        ELSE Emit(st, st.slave.obj, \h1029, sub_index.value, value.value)

\* the loop over cfg["error_behavior"].items() from entry k on
RECURSIVE slave_error_behavior(_, _, _)
slave_error_behavior(st, items, k) ==
    IF st.exc # "" \/ k > Len(items) THEN st
    ELSE CHOOSE out \in {slave_error_behavior(next, items, k + 1)
                           : next \in {slave_error_behavior_item(st, items[k])}} : TRUE

\* one pass of the loop over cfg["rpdo"] or cfg["tpdo"]: the PDO i is configured,
\* its records extend slave.sdo
slave_pdo_item(st, kind, comm, item) ==
    LET i == item[1]
    IN  IF i.kind # "int" \/ i.int \notin DOMAIN st.slave[kind]
        THEN [st EXCEPT !.exc = "KeyError"]
        ELSE CHOOSE out \in {
                 [st EXCEPT !.exc = r.exc, !.warnings = @ \o r.warnings,
                            !.sdo = IF r.exc = "" THEN @ \o r.sdo ELSE @,
                            !.options = r.options,
                            !.slave[kind] = [j \in DOMAIN st.slave[kind] |->
                                                IF j = i.int THEN r.pdo
                                                ELSE st.slave[kind][j]]]
               : r \in {parse_pdo_config(st.slave.obj, st.slave.node_id,
                                         st.slave[kind][i.int], comm + i.int - 1, item[2],
                                         st.options)}} : TRUE

\* the loop over cfg["rpdo"] or cfg["tpdo"] (kind) from entry k on; comm is
\* 0x1400 or 0x1800
RECURSIVE slave_pdo_loop(_, _, _, _, _)
slave_pdo_loop(st, kind, comm, items, k) ==
    IF st.exc # "" \/ k > Len(items) THEN st
    ELSE CHOOSE out \in {slave_pdo_loop(next, kind, comm, items, k + 1)
                           : next \in {slave_pdo_item(st, kind, comm, items[k])}} : TRUE

\* slave_pdo with a deletion loop that looks at the COB-ID only
slave_pdo_mutant(st, cfg, kind, comm) ==
    IF st.exc # "" THEN st
    ELSE CHOOSE out \in {
             IF st1.exc # "" THEN st1
             ELSE [st1 EXCEPT !.slave[kind] =
                       [i \in {j \in DOMAIN st1.slave[kind] :
                                  ~HasBit31(st1.slave[kind][j].cob_id)} |->
                           st1.slave[kind][i]]]
           : st1 \in {IF YHas(cfg, kind)
                      THEN slave_pdo_loop(st, kind, comm, YGet(cfg, kind).items, 1)
                      ELSE st}} : TRUE

\* the block of cfg["rpdo"] or cfg["tpdo"], and the loop that deletes the PDOs
\* that are disabled or map nothing
slave_pdo(st, cfg, kind, comm) ==
    IF st.exc # "" THEN st
    ELSE CHOOSE out \in {
             IF st1.exc # "" THEN st1
             ELSE [st1 EXCEPT !.slave[kind] =
                       [i \in {j \in DOMAIN st1.slave[kind] :
                                  ~(HasBit31(st1.slave[kind][j].cob_id)
                                    \/ Cardinality(DOMAIN st1.slave[kind][j].mapping) = 0)} |->
                           st1.slave[kind][i]]]
           : st1 \in {IF YHas(cfg, kind)
                      THEN slave_pdo_loop(st, kind, comm, YGet(cfg, kind).items, 1)
                      ELSE st}} : TRUE

\* the blocks from "boot" to "restore_configuration"
slave_boot(st, cfg) ==
    LET obj == st.slave.obj
        version == python_int_node(YGet(cfg, "software_version"))
        restore == python_int_node(YGet(cfg, "restore_configuration"))
        st1 == [st EXCEPT
                  !.slave.boot = IF YHas(cfg, "boot") THEN python_bool(YGet(cfg, "boot"))
                                 ELSE @,
                  !.slave.mandatory = IF YHas(cfg, "mandatory")
                                      THEN python_bool(YGet(cfg, "mandatory")) ELSE @,
                  !.slave.reset_communication =
                      IF YHas(cfg, "reset_communication")
                      THEN python_bool(YGet(cfg, "reset_communication")) ELSE @,
                  !.slave.software_file = IF YHas(cfg, "software_file")
                                          THEN python_str(YGet(cfg, "software_file"))
                                          ELSE @]
        st2 == IF ~YHas(cfg, "software_version") THEN st1
               ELSE IF version.exc # "" THEN [st1 EXCEPT !.exc = version.exc]
               ELSE [st1 EXCEPT !.slave.software_version = version.value,
                                !.warnings = @ \o
                                    IF \h1F56 \notin DOMAIN obj
                                       \/ 1 \notin DOMAIN obj[\h1F56].sub
                                    THEN <<<<"does not exist", \h1F56, 1>>>> ELSE <<>>]
    IN  IF st.exc # "" THEN st
        ELSE IF st2.exc # "" \/ ~YHas(cfg, "restore_configuration") THEN st2
        ELSE IF restore.exc # "" THEN [st2 EXCEPT !.exc = restore.exc]
        ELSE [st2 EXCEPT !.slave.restore_configuration = restore.value,
                         !.warnings = @ \o
                             IF \h1011 \notin DOMAIN obj
                                \/ restore.value \notin DOMAIN obj[\h1011].sub
                             THEN <<<<"does not exist", \h1011, restore.value>>>>
                             ELSE <<>>]

\* one pass of the loop over cfg["sdo"]
slave_sdo_item(st, sdo) ==
    LET index == IF sdo.kind = "map" /\ YHas(sdo, "index")
                 THEN python_int_node(YGet(sdo, "index")) ELSE Raise("KeyError")
        sub_index == IF YHas(sdo, "sub_index") THEN python_int_node(YGet(sdo, "sub_index"))
                     ELSE Ok(0)
        value == IF YHas(sdo, "value") THEN python_int_node(YGet(sdo, "value")) ELSE Ok(0)
    IN  IF FirstExc(<<index, sub_index, value>>) # ""
        THEN [st EXCEPT !.exc = FirstExc(<<index, sub_index, value>>)]
        ELSE Emit(st, st.slave.obj, index.value, sub_index.value, value.value)

\* the loop over cfg["sdo"] from entry k on
RECURSIVE slave_sdo(_, _, _)
slave_sdo(st, items, k) ==
    IF st.exc # "" \/ k > Len(items) THEN st
    ELSE CHOOSE out \in {slave_sdo(next, items, k + 1)
                           : next \in {slave_sdo_item(st, items[k])}} : TRUE

\* the blocks between from_dcf and "revision_number", and the plain settings
\* further down that read no object and append no record (heartbeat_multiplier
\* is a float in the code; the overlays here give integers)
slave_settings(st, name, cfg) ==
    LET multiplier == python_int_node(YGet(cfg, "heartbeat_multiplier"))
        retry == python_int_node(YGet(cfg, "retry_factor"))
        emcy == Item(st.slave.obj, \h1014, 0)
        st1 == [st EXCEPT
                  !.slave.name = name,
                  !.slave.dcf_path = IF YHas(cfg, "dcf_path")
                                     THEN <<python_str(YGet(cfg, "dcf_path"))>>
                                     ELSE st.options.dcf_path,
                  !.slave.heartbeat_multiplier =
                      IF YHas(cfg, "heartbeat_multiplier") THEN multiplier.value
                      ELSE st.options.heartbeat_multiplier,
                  !.slave.heartbeat_consumer =
                      IF YHas(cfg, "heartbeat_consumer")
                      THEN python_bool(YGet(cfg, "heartbeat_consumer")) ELSE @,
                  !.slave.retry_factor = IF YHas(cfg, "retry_factor") THEN retry.value
                                         ELSE st.options.retry_factor,
                  !.slave.emcy_cob_id = IF \h1014 \in DOMAIN st.slave.obj THEN emcy.value
                                        ELSE @]
    IN  IF st.exc # "" THEN st
        ELSE IF \h1014 \in DOMAIN st.slave.obj /\ emcy.exc # ""
        THEN [st EXCEPT !.exc = emcy.exc]
        ELSE IF YHas(cfg, "heartbeat_multiplier") /\ multiplier.exc # ""
        THEN [st EXCEPT !.exc = multiplier.exc]
        ELSE IF YHas(cfg, "retry_factor") /\ retry.exc # ""
        THEN [st EXCEPT !.exc = retry.exc]
        ELSE st1

\* the tail of from_config: the name of the .bin file, and the block of
\* "configuration_file", which assigns dcf_path
slave_configuration_file(st, cfg) ==
    LET st1 == IF st.sdo # <<>>
               THEN [st EXCEPT !.slave.configuration_file =
                                   st.slave.dcf_path \o <<st.slave.name, ".bin">>]
               ELSE st
    IN  IF st.exc # "" THEN st
        ELSE IF YHas(cfg, "configuration_file")
        THEN [st1 EXCEPT !.slave.dcf_path = <<python_str(YGet(cfg, "configuration_file"))>>]
        ELSE st1

\* block k of Slave.from_config after from_dcf, in the order of the code
from_config_block(k, st, name, cfg) ==
    CASE k = 1 -> slave_settings(st, name, cfg)
      [] k = 2 -> slave_identity(st, cfg, "revision_number")
      [] k = 3 -> slave_identity(st, cfg, "serial_number")
      [] k = 4 -> slave_time_cob_id(st, cfg)
      [] k = 5 -> slave_scalar(st, cfg, "heartbeat_producer", \h1017)
      [] k = 6 -> slave_scalar(st, cfg, "guard_time", \h100C)
      [] k = 7 -> slave_scalar(st, cfg, "life_time_factor", \h100D)
      [] k = 8 -> slave_guarding(st)
      [] k = 9 -> IF YHas(cfg, "error_behavior")
                  THEN slave_error_behavior(st, YGet(cfg, "error_behavior").items, 1)
                  ELSE st
      [] k = 10 -> slave_pdo(st, cfg, "rpdo", \h1400)
      [] k = 11 -> slave_pdo(st, cfg, "tpdo", \h1800)
      [] k = 12 -> slave_boot(st, cfg)
      [] k = 13 -> IF YHas(cfg, "sdo") THEN slave_sdo(st, YGet(cfg, "sdo").items, 1)
                   ELSE st
      [] k = 14 -> slave_configuration_file(st, cfg)

\* the blocks from k on, up to the return or the first exception
RECURSIVE from_config_blocks(_, _, _, _)
from_config_blocks(k, st, name, cfg) ==
    IF k > 14 \/ st.exc # "" THEN st
    ELSE CHOOSE out \in {from_config_blocks(k + 1, next, name, cfg)
                           : next \in {from_config_block(k, st, name, cfg)}} : TRUE

\* Slave.from_config(name, cfg, options, args); dcf is the content of the file
\* cfg["dcf"] names and lint_ok the verdict of lint on it.  The result is the
\* state st: st.exc the exception that leaves from_config ("" when it returns),
\* st.slave the Slave, st.sdo its list slave.sdo, st.options the mutated options
from_config(name, cfg, options, dcf, lint_ok, no_strict) ==
    LET node_id == python_int_node(YGet(cfg, "node_id"))
        env == IF YHas(cfg, "node_id") THEN Env(node_id.value) ELSE EmptyDict
        failed == [exc |-> "", warnings |-> <<>>, sdo |-> <<>>, slave |-> <<>>,
                   options |-> options]
    IN  IF YHas(cfg, "node_id") /\ node_id.exc # ""
        THEN [failed EXCEPT !.exc = node_id.exc]
        ELSE IF ~YHas(cfg, "dcf") THEN [failed EXCEPT !.exc = "KeyError"]
        ELSE CHOOSE out \in {
                 IF loaded[1].exc # ""
                 THEN [failed EXCEPT !.exc = loaded[1].exc, !.warnings = loaded[2]]
                 ELSE from_config_blocks(1, [exc |-> "", warnings |-> loaded[2],
                                             sdo |-> <<>>, slave |-> loaded[1].value,
                                             options |-> options],
                                         name, cfg)
               : loaded \in {Slave_from_dcf(dcf, env, lint_ok, no_strict)}} : TRUE

(***************************************************************************)
(* dcf/lint.py: the checks of limits and values.  A lint function returns  *)
(* its boolean and the warnings it emitted, or raises.  A section is a     *)
(* function from its keys to their strings.                                *)
(***************************************************************************)
LintOk(ok, warn) == [exc |-> "", value |-> ok, warn |-> warn]
LintRaise(e, warn) == [exc |-> e, value |-> FALSE, warn |-> warn]

\* __limits of lint.py for the integer types (its REAL32 and REAL64 rows are
\* outside this model), clipped to TLC's integers
lint_limits(data_type) == <<DataType_min(data_type), DataType_max(data_type)>>

\* __parse_limit
lint_parse_limit(section, entry, data_type) ==
    IF ~Has(section, entry) THEN LintOk(TRUE, <<>>)
    ELSE
      LET s == section[entry]
          m == p_value_match(s)
          isvar == s.form = "var" /\ Upper(s.text) = "NODEID"
          number == IF ~isvar /\ m # <<>> THEN python_int(m[1].value, 0) ELSE Ok(0)
          value == number.value
          value_has_nodeid == isvar \/ (m # <<>> /\ m[1].variable # None)
          w1 == IF ~isvar /\ m = <<>> THEN <<<<"invalid", entry>>>> ELSE <<>>
          low_limit == lint_limits(data_type)[1] - (IF value_has_nodeid THEN 1 ELSE 0)
          high_limit == lint_limits(data_type)[2] - (IF value_has_nodeid THEN 127 ELSE 0)
      IN  IF number.exc # "" THEN LintOk(FALSE, <<<<"invalid", entry>>>>)
          ELSE IF value < low_limit THEN LintOk(FALSE, w1 \o <<<<"underflow", entry>>>>)
          ELSE IF value > high_limit THEN LintOk(FALSE, w1 \o <<<<"overflow", entry>>>>)
          ELSE LintOk(TRUE, w1)

\* __parse_data_type
lint_parse_data_type(section) ==
    IF ~Has(section, "DataType") THEN LintOk(TRUE, <<>>)
    ELSE
      LET dt == python_int(section["DataType"], 0)
          low == lint_parse_limit(section, "LowLimit", dt.value)
          high == lint_parse_limit(section, "HighLimit", dt.value)
          wl == IF Has(section, "LowLimit")
                THEN <<<<"not supported", "LowLimit">>>> ELSE <<>>
          wh == IF Has(section, "HighLimit")
                THEN <<<<"not supported", "HighLimit">>>> ELSE <<>>
      IN  IF dt.exc # ""
          \* the except clause warns and leaves data_type unbound for the next line
          THEN LintRaise("UnboundLocalError", <<<<"invalid", "DataType">>>>)
          ELSE CASE dt.value \in IntegerTypes ->
                      IF ~low.value THEN LintOk(FALSE, low.warn)
                      ELSE LintOk(high.value, low.warn \o high.warn)
                 [] dt.value \notin IntegerTypes \cup {\h0008, \h0011} ->
                      LintOk(wl \o wh = <<>>, wl \o wh)

\* the LowLimit / HighLimit block of __parse_value: <<"ok", limit, has_nodeid>>,
\* <<"invalid", 0, FALSE>> (warn and return False) or <<"raise", 0, FALSE>>
lint_value_limit(cfg, entry, default) ==
    IF ~Has(cfg, entry) THEN <<"ok", default, FALSE>>
    ELSE IF cfg[entry].form = "var" /\ Upper(cfg[entry].text) = "NODEID"
    THEN <<"ok", 0, TRUE>>
    ELSE LET m == p_value_match(cfg[entry])
         IN  IF m = <<>> THEN <<"invalid", 0, FALSE>>
             ELSE IF python_int(m[1].value, 0).exc # "" THEN <<"raise", 0, FALSE>>
             ELSE <<"ok", python_int(m[1].value, 0).value, m[1].variable # None>>

\* the comparison at the end of __parse_value
lint_compare_noshift(entry, value, value_has_nodeid, low, high) ==
    IF value < low[2] THEN LintOk(FALSE, <<<<"underflow", entry>>>>)
    ELSE IF value > high[2] THEN LintOk(FALSE, <<<<"overflow", entry>>>>)
    ELSE LintOk(TRUE, <<>>)

lint_compare_mutant(entry, value, value_has_nodeid, low, high) ==
    LET low_limit ==
            IF ~value_has_nodeid /\ low[3] THEN low[2] + 1
            ELSE IF value_has_nodeid /\ ~low[3] THEN low[2] - 1
            ELSE low[2]
        high_limit ==
            IF ~value_has_nodeid /\ high[3] THEN high[2] - 127
            ELSE IF value_has_nodeid /\ ~high[3] THEN high[2] + 127
            ELSE high[2]
    IN  IF value < low_limit THEN LintOk(FALSE, <<<<"underflow", entry>>>>)
        ELSE IF value > high_limit THEN LintOk(FALSE, <<<<"overflow", entry>>>>)
        ELSE LintOk(TRUE, <<>>)

lint_compare(entry, value, value_has_nodeid, low, high) ==
    LET low_limit ==
            IF ~value_has_nodeid /\ low[3] THEN low[2] + 1
            ELSE IF value_has_nodeid /\ ~low[3] THEN low[2] - 1
            ELSE low[2]
        high_limit ==
            IF ~value_has_nodeid /\ high[3] THEN high[2] + 127
            ELSE IF value_has_nodeid /\ ~high[3] THEN high[2] - 127
            ELSE high[2]
    IN  IF value < low_limit THEN LintOk(FALSE, <<<<"underflow", entry>>>>)
        ELSE IF value > high_limit THEN LintOk(FALSE, <<<<"overflow", entry>>>>)
        ELSE LintOk(TRUE, <<>>)

\* __parse_value(cfg, section, entry, value), cfg being the section
lint_parse_value(cfg, entry, value) ==
    LET dt == IF "DataType" \in DOMAIN cfg THEN python_int(cfg["DataType"], 0)
              ELSE Raise("KeyError")
        data_type == dt.value
        low == lint_value_limit(cfg, "LowLimit", lint_limits(data_type)[1])
        high == lint_value_limit(cfg, "HighLimit", lint_limits(data_type)[2])
        m == p_value_match(value)
        isvar == value = NodeIdStr
        number == IF ~isvar /\ m # <<>> THEN python_int(m[1].value, 0) ELSE Ok(0)
        value_has_nodeid == isvar \/ (m # <<>> /\ m[1].variable # None)
    IN  IF dt.exc # "" THEN LintRaise(dt.exc, <<>>)
        ELSE IF data_type \notin IntegerTypes \cup {\h0008, \h0011} THEN LintOk(TRUE, <<>>)
        ELSE IF low[1] = "raise" THEN LintRaise("ValueError", <<>>)
        ELSE IF low[1] = "invalid" THEN LintOk(FALSE, <<<<"invalid", "LowLimit">>>>)
        ELSE IF high[1] = "raise" THEN LintRaise("ValueError", <<>>)
        ELSE IF high[1] = "invalid" THEN LintOk(FALSE, <<<<"invalid", "HighLimit">>>>)
        ELSE IF ~isvar /\ m = <<>> THEN LintOk(FALSE, <<<<"invalid", entry>>>>)
        ELSE IF number.exc # "" THEN LintRaise("ValueError", <<>>)
        ELSE lint_compare(entry, number.value, value_has_nodeid, low, high)

\* __parse_sub_object_0
lint_parse_sub_object_0(section) ==
    LET t == lint_parse_data_type(section)
        d == IF Has(section, "DefaultValue")
             THEN lint_parse_value(section, "DefaultValue", section["DefaultValue"])
             ELSE LintOk(TRUE, <<>>)
        p == IF Has(section, "ParameterValue")
             THEN lint_parse_value(section, "ParameterValue", section["ParameterValue"])
             ELSE LintOk(TRUE, <<>>)
    IN  IF t.exc # "" THEN t
        ELSE IF ~t.value THEN LintOk(FALSE, t.warn)
        ELSE IF d.exc # "" THEN LintRaise(d.exc, t.warn \o d.warn)
        ELSE IF p.exc # "" THEN LintRaise(p.exc, t.warn \o d.warn \o p.warn)
        ELSE LintOk(d.value /\ p.value, t.warn \o d.warn \o p.warn)

(***************************************************************************)
(* Specification SpecPack: DataType.concise_value on every integer type.   *)
(***************************************************************************)
PackValues(dt) ==
    {v \in {DataType_min(dt), DataType_min(dt) + 1, 0 - 1, 0, 1, 500,
            DataType_max(dt) - 1, DataType_max(dt)} :
        v >= DataType_min(dt) /\ v <= DataType_max(dt)}

PackCalls ==
    UNION {{[fn |-> "concise_value", self |-> dt, index |-> i, sub_index |-> s,
             value |-> v] : i \in {\h1017, \h2000}, s \in {0, 1}, v \in PackValues(dt)} :
           dt \in IntegerTypes}

InitPack ==
    /\ call \in PackCalls
    /\ ret = NoRet
    /\ warnings = <<>>

concise_value ==
    /\ call.fn = "concise_value"
    /\ ret = NoRet
    /\ ret' = <<DataType_concise_value(call.self, call.index, call.sub_index,
                                       call.value)>>
    /\ UNCHANGED <<call, warnings>>

NextPack == concise_value

SpecPack == InitPack /\ [][NextPack]_vars

(***************************************************************************)
(* Specification SpecValue: Value(data_type, literal).parse(env).           *)
(***************************************************************************)

ValueNumbers ==
    {Dec(0), Dec(1), Dec(0 - 2), Dec(500), Hex(\h10), Hex(\h180),
     Str("number", "", FALSE, 10, <<0, 1, 0>>),
     Str("number", "", FALSE, 10, <<0, 0>>)}

ValueStrings ==
    ValueNumbers
        \cup {NodeIdPlus(n) : n \in ValueNumbers}
        \cup {[NodeIdPlus(n) EXCEPT !.text = "nodeid"] : n \in {Dec(1), Hex(\h10)}}
        \cup {EmptyStr, NodeIdStr, [NodeIdStr EXCEPT !.text = "NodeId"], Text("abc")}

ValueEnvs == {EmptyDict, Env(1), Env(\h20), Env(127)}

InitValue ==
    /\ call \in [fn : {"Value.parse"}, data_type : {\h0005, \h0007, \h0003},
                 value : ValueStrings, env : ValueEnvs]
    /\ ret = NoRet
    /\ warnings = <<>>

\* Value(data_type, value).parse(env)
Value_call ==
    /\ call.fn = "Value.parse"
    /\ ret = NoRet
    /\ LET self == Value_init(call.data_type, call.value)
       IN  ret' = <<IF self.exc # "" THEN self ELSE Value_parse(self.value, call.env)>>
    /\ UNCHANGED <<call, warnings>>

NextValue == Value_call

SpecValue == InitValue /\ [][NextValue]_vars

(***************************************************************************)
(* Specification SpecLint: the range check of lint on one object section.  *)
(***************************************************************************)
Absent == Str("absent", "", FALSE, 10, <<>>)

\* a section holding the keys of r that are not Absent
Section(r) == [k \in {x \in DOMAIN r : r[x] # Absent} |-> r[k]]

LintTypes == {Hex(\h0002), Hex(\h0005), Hex(\h0006), Hex(\h0007)}
LintLowLimits == {Absent, Dec(1), Dec(2), Dec(3), NodeIdPlus(Dec(1)), NodeIdStr}
LintHighLimits == {Absent, Dec(129), NodeIdPlus(Dec(1))}
LintValues ==
    {Dec(0), Dec(1), Dec(2), Dec(128), Dec(129), NodeIdStr, NodeIdPlus(Dec(1)),
     NodeIdPlus(Dec(2)), NodeIdPlus(Dec(3)), Text("abc")}

LintSections ==
    {Section([DataType |-> t, LowLimit |-> l, HighLimit |-> h, DefaultValue |-> d,
              ParameterValue |-> Absent]) :
        t \in LintTypes, l \in LintLowLimits, h \in LintHighLimits,
        d \in LintValues \cup {Absent}}

InitLint ==
    /\ \/ call \in [fn : {"__parse_value"},
                    section : {c \in LintSections : "DefaultValue" \notin DOMAIN c},
                    value : LintValues]
       \/ call \in [fn : {"__parse_sub_object_0"},
                    section : {c \in LintSections : "DefaultValue" \in DOMAIN c},
                    value : {Absent}]
    /\ ret = NoRet
    /\ warnings = <<>>

\* __parse_value(cfg[section], section, "DefaultValue", value)
parse_value ==
    /\ call.fn = "__parse_value"
    /\ ret = NoRet
    /\ LET r == lint_parse_value(call.section, "DefaultValue", call.value)
       IN  /\ ret' = <<[exc |-> r.exc, value |-> r.value]>>
           /\ warnings' = warnings \o r.warn
    /\ UNCHANGED call

\* __parse_sub_object_0(cfg, section)
parse_sub_object_0 ==
    /\ call.fn = "__parse_sub_object_0"
    /\ ret = NoRet
    /\ LET r == lint_parse_sub_object_0(call.section)
       IN  /\ ret' = <<[exc |-> r.exc, value |-> r.value]>>
           /\ warnings' = warnings \o r.warn
    /\ UNCHANGED call

NextLint == parse_value \/ parse_sub_object_0

SpecLint == InitLint /\ [][NextLint]_vars

(***************************************************************************)
(* Specification SpecDevice: Device.__init__ on a parsed store.            *)
(***************************************************************************)
\* an object list naming the indices of seq
ObjectList(seq) ==
    [k \in {"SupportedObjects"} \cup {ToString(i) : i \in 1 .. Len(seq)} |->
        IF k = "SupportedObjects" THEN Dec(Len(seq))
        ELSE Hex(seq[CHOOSE i \in 1 .. Len(seq) : ToString(i) = k])]

\* the section of a record object with n sub-object sections
RecordSection(n) ==
    [ParameterName |-> Text("record"), ObjectType |-> Hex(\h09), SubNumber |-> Dec(n)]

\* the section [index sub k] of type data_type with DefaultValue value; no
\* section at all when value is Absent
Sub(index, k, data_type, value) ==
    IF value = Absent THEN EmptyDict
    ELSE SubName(index, k) :>
             [ParameterName |-> Text("sub"), ObjectType |-> Hex(\h07),
              DataType |-> Hex(data_type), AccessType |-> Text("rw"),
              DefaultValue |-> value, PDOMapping |-> Dec(1)]

\* a store with the mandatory objects, the identity object holding id[1..4], and
\* the optional objects `optional` whose sections are `sections`
DeviceStore(info, comissioning, id, optional, sections) ==
    (<<"DeviceInfo">> :> Section(info))
    @@ (<<"DeviceComissioning">> :> Section(comissioning))
    @@ (<<"MandatoryObjects">> :> ObjectList(<<\h1000, \h1001, \h1018>>))
    @@ (<<"OptionalObjects">> :> ObjectList(optional))
    @@ (<<"ManufacturerObjects">> :> ObjectList(<<>>))
    @@ (ObjName(\h1000) :> [ParameterName |-> Text("device type"),
                            DataType |-> Hex(\h0007), AccessType |-> Text("ro")])
    @@ (ObjName(\h1001) :> [ParameterName |-> Text("error register"),
                            DataType |-> Hex(\h0005), AccessType |-> Text("ro")])
    @@ (ObjName(\h1018) :> RecordSection(5))
    @@ Sub(\h1018, 0, \h0005, Dec(4))
    @@ Sub(\h1018, 1, \h0007, id[1]) @@ Sub(\h1018, 2, \h0007, id[2])
    @@ Sub(\h1018, 3, \h0007, id[3]) @@ Sub(\h1018, 4, \h0007, id[4])
    @@ sections

\* the stores of the identity cross-check
IdentityStores ==
    {DeviceStore([VendorNumber |-> v, ProductNumber |-> p, RevisionNumber |-> r],
                 [NodeID |-> Dec(2), LSS_SerialNumber |-> l],
                 <<id1, id2, id3, id4>>, <<>>, EmptyDict) :
        v \in {Absent, Dec(42), Dec(43)}, p \in {Absent, EmptyStr, Dec(42), Dec(43)},
        r \in {Absent, Dec(43)}, l \in {Absent, Dec(43)},
        id1 \in {Dec(0), Dec(42)}, id2 \in {Absent, Dec(0), Dec(42)},
        id3 \in {Absent, Dec(0), Dec(42)}, id4 \in {Absent, Dec(0), Dec(42)}}

\* the mapping words of the PDO stores: an entry of the dictionary, dummy
\* entries, a zero word, entries the dictionary lacks, and no sub-object at all
MappingWords ==
    {Hex((\h6000 * 65536) + \h0108), Hex(\h00050008), Hex(\h00050108),
     Hex(\h000E0008), Hex(\h00090008), Dec(0), Hex((\h6000 * 65536) + \h0208),
     Hex((\h7000 * 65536) + \h0008), Absent}

\* the stores of PDO reconstruction: one PDO at comm (0x1400 or 0x1800), its
\* mapping with one slot, and the application object 0x6000
PdoStores ==
    {DeviceStore([VendorNumber |-> Absent], [NodeID |-> node],
                 <<Dec(1), Absent, Absent, Absent>>,
                 <<comm, comm + \h200, \h6000>>,
                 (ObjName(comm) :> RecordSection(7))
                 @@ Sub(comm, 0, \h0005, Dec(n))
                 @@ Sub(comm, 1, \h0007, cob) @@ Sub(comm, 2, \h0005, Dec(1))
                 @@ Sub(comm, 3, \h0006, Dec(10)) @@ Sub(comm, 5, \h0006, Dec(100))
                 @@ Sub(comm, 6, \h0005, Dec(3))
                 @@ (ObjName(comm + \h200) :> RecordSection(2))
                 @@ Sub(comm + \h200, 0, \h0005, Dec(1))
                 @@ Sub(comm + \h200, 1, \h0007, word)
                 @@ (ObjName(\h6000) :> RecordSection(2))
                 @@ Sub(\h6000, 0, \h0005, Dec(1))
                 @@ Sub(\h6000, 1, \h0005, Dec(0))) :
        comm \in {\h1400, \h1800}, n \in {2, 5, 6},
        cob \in {Hex(\h40000180), NodeIdPlus(Hex(\h180))},
        word \in MappingWords, node \in {Absent, Dec(2), Dec(200)}}

\* the value that the stores of the communication parameters keep in
\* sub-object k of a communication record
CommValue(k) ==
    CASE k = 1 -> Hex(\h181) [] k = 2 -> Dec(1) [] k = 3 -> Dec(10) [] k = 5 -> Dec(100)
      [] k = 6 -> Dec(3)

\* the stores of the communication parameters: one PDO at comm, the first or
\* the last RPDO or TPDO, whose sub-object 0 holds n and whose sub-object
\* `missing` has no section (0: every sub-object has one)
CommStores ==
    {DeviceStore([VendorNumber |-> Absent], [NodeID |-> Absent],
                 <<Dec(1), Absent, Absent, Absent>>,
                 <<comm, comm + \h200>>,
                 (ObjName(comm) :> RecordSection(6))
                 @@ Sub(comm, 0, \h0005, Dec(n))
                 @@ Sub(comm, 1, \h0007, IF missing = 1 THEN Absent ELSE CommValue(1))
                 @@ Sub(comm, 2, \h0005, IF missing = 2 THEN Absent ELSE CommValue(2))
                 @@ Sub(comm, 3, \h0006, IF missing = 3 THEN Absent ELSE CommValue(3))
                 @@ Sub(comm, 5, \h0006, IF missing = 5 THEN Absent ELSE CommValue(5))
                 @@ Sub(comm, 6, \h0005, IF missing = 6 THEN Absent ELSE CommValue(6))
                 @@ (ObjName(comm + \h200) :> RecordSection(1))
                 @@ Sub(comm + \h200, 0, \h0005, Dec(0))) :
        comm \in {\h1400, \h15FF, \h1800, \h19FF}, n \in 0 .. 6,
        missing \in {0, 1, 2, 3, 5, 6}}

\* the env of the caller: none, a node-ID, and node-IDs outside 1..127
DeviceEnvs == {EmptyDict, Env(5), Env(0), Env(128)}

InitDevice ==
    /\ \/ call \in [fn : {"Device"}, cfg : IdentityStores, env : {EmptyDict}]
       \/ call \in [fn : {"Device"}, cfg : PdoStores, env : DeviceEnvs]
       \/ call \in [fn : {"Device"}, cfg : CommStores, env : {Env(5)}]
    /\ ret = NoRet
    /\ warnings = <<>>

\* Device(cfg, env)
Device ==
    /\ call.fn = "Device"
    /\ ret = NoRet
    /\ \E r \in {Device_init(call.cfg, call.env)} :
           /\ ret' = <<r[1]>>
           /\ warnings' = r[2]
    /\ UNCHANGED call

NextDevice == Device

SpecDevice == InitDevice /\ [][NextDevice]_vars

(***************************************************************************)
(* Specification SpecParse: the CompactPDO expansion of parse_file, and    *)
(* the expansion applied once more to the store it returned.               *)
(***************************************************************************)
MaxNrOfPDO == 5

\* the stores read from a file: a device with CompactPDO and the numbers of
\* PDOs in [DeviceInfo], and some of the PDO objects given explicitly
CompactStores ==
    {DeviceStore([CompactPDO |-> c, NrOfRxPDO |-> rx, NrOfTxPDO |-> tx],
                 [NodeID |-> Dec(2)], <<Dec(1), Absent, Absent, Absent>>,
                 explicit,
                 [x \in {ObjName(explicit[j]) : j \in 1 .. Len(explicit)} |->
                     RecordSection(1)]) :
        c \in {Absent, Dec(0), Hex(\h01), Hex(\h12), Hex(\h3F)},
        rx \in {Absent, Dec(0), Dec(1), Dec(2), Dec(MaxNrOfPDO)},
        tx \in {Absent, Dec(1), Dec(MaxNrOfPDO)},
        explicit \in {<<>>, <<\h1400>>, <<\h1401, \h1600>>, <<\h1602, \h1A00>>,
                      <<\h1400, \h1401, \h1402, \h1800>>}}

InitParse ==
    /\ call \in [fn : {"parse_file"}, cfg : CompactStores]
    /\ ret = NoRet
    /\ warnings = <<>>

\* parse_file(filename), from the store that read_file built
parse_file_call ==
    /\ call.fn = "parse_file"
    /\ ret = NoRet
    /\ ret' = <<parse_file(call.cfg)>>
    /\ UNCHANGED <<call, warnings>>

\* __add_compact_rpdo and __add_compact_tpdo once more, on the returned store
expand_again ==
    /\ call.fn = "parse_file"
    /\ ret # NoRet
    /\ ret[1].exc = ""
    /\ call' = [fn |-> "expand_again", cfg |-> ret[1].value]
    /\ ret' = <<parse_file(ret[1].value)>>
    /\ UNCHANGED warnings

NextParse == parse_file_call \/ expand_again

SpecParse == InitParse /\ [][NextParse]_vars

(***************************************************************************)
(* Specification SpecSlave: Slave.from_config on a YAML overlay.           *)
(***************************************************************************)
\* the DCF of the slave: heartbeat producer, guard time, life time factor and
\* error behavior objects, RPDO1 (COB-ID 0x200, transmission type ttype, mapping
\* nothing) and TPDO1 (COB-ID $NODEID+0x180, mapping 0x6000/1), and the
\* application objects 0x6000 and 0x6200
SlaveStore(ttype) ==
    DeviceStore([VendorNumber |-> Absent], [NodeID |-> Dec(2)],
                <<Dec(1), Absent, Absent, Absent>>,
                <<\h100C, \h100D, \h1017, \h1029, \h1400, \h1600, \h1800, \h1A00,
                  \h6000, \h6200>>,
                (ObjName(\h100C) :> RecordSection(1)) @@ Sub(\h100C, 0, \h0006, Dec(0))
                @@ (ObjName(\h100D) :> RecordSection(1)) @@ Sub(\h100D, 0, \h0005, Dec(0))
                @@ (ObjName(\h1017) :> RecordSection(1)) @@ Sub(\h1017, 0, \h0006, Dec(0))
                @@ (ObjName(\h1029) :> RecordSection(2))
                @@ Sub(\h1029, 0, \h0005, Dec(1)) @@ Sub(\h1029, 1, \h0005, Dec(0))
                @@ (ObjName(\h1400) :> RecordSection(3))
                @@ Sub(\h1400, 0, \h0005, Dec(2)) @@ Sub(\h1400, 1, \h0007, Hex(\h200))
                @@ Sub(\h1400, 2, \h0005, Dec(ttype))
                @@ (ObjName(\h1600) :> RecordSection(2))
                @@ Sub(\h1600, 0, \h0005, Dec(0)) @@ Sub(\h1600, 1, \h0007, Dec(0))
                @@ (ObjName(\h1800) :> RecordSection(4))
                @@ Sub(\h1800, 0, \h0005, Dec(5))
                @@ Sub(\h1800, 1, \h0007, NodeIdPlus(Hex(\h180)))
                @@ Sub(\h1800, 2, \h0005, Dec(254)) @@ Sub(\h1800, 5, \h0006, Dec(0))
                @@ (ObjName(\h1A00) :> RecordSection(2))
                @@ Sub(\h1A00, 0, \h0005, Dec(1))
                @@ Sub(\h1A00, 1, \h0007, Hex((\h6000 * 65536) + \h0108))
                @@ (ObjName(\h6000) :> RecordSection(2))
                @@ Sub(\h6000, 0, \h0005, Dec(1)) @@ Sub(\h6000, 1, \h0005, Dec(0))
                @@ (ObjName(\h6200) :> RecordSection(2))
                @@ Sub(\h6200, 0, \h0005, Dec(1)) @@ Sub(\h6200, 1, \h0005, Dec(0)))

\* a mapping entry {index, sub_index} of a PDO overlay
MapEntry(index, sub_index) ==
    YMap(<<<<YStr("index"), YInt(index)>>, <<YStr("sub_index"), YInt(sub_index)>>>>)

\* the overlay of PDO 1 of the disable-then-enable scenario, for an RPDO (mapping
\* 0x6200/1) and for a TPDO (mapping 0x6000/1)
PdoOverlay(cob_id, index) ==
    YMap(<<<<YInt(1),
             YMap(<<<<YStr("cob_id"), YInt(cob_id)>>,
                    <<YStr("transmission"), YInt(255)>>,
                    <<YStr("mapping"), YList(<<MapEntry(index, 1)>>)>>>>)>>>>)

\* the entries an overlay is made of: each makes from_config append records
OverlayEntries ==
    {<<YStr("heartbeat_producer"), YInt(500)>>,
     <<YStr("guard_time"), YInt(100)>>,
     <<YStr("error_behavior"), YMap(<<<<YInt(1), YInt(2)>>>>)>>,
     <<YStr("rpdo"), PdoOverlay(\h201, \h6200)>>,
     <<YStr("tpdo"), PdoOverlay(\h181, \h6000)>>,
     <<YStr("sdo"),
       YList(<<YMap(<<<<YStr("index"), YInt(\h6200)>>, <<YStr("sub_index"), YInt(1)>>,
                      <<YStr("value"), YInt(7)>>>>),
               YMap(<<<<YStr("index"), YInt(\h1017)>>, <<YStr("value"), YInt(9)>>>>)>>)>>}

\* the longest overlay, in entries
MaxOverlay == 2

\* the overlays: up to MaxOverlay entries with distinct keys, in every order,
\* behind the key dcf
Overlays ==
    {YMap(<<<<YStr("dcf"), YStr("slave.dcf")>>>> \o entries) :
        entries \in {e \in UNION {[1 .. n -> OverlayEntries] : n \in 0 .. MaxOverlay} :
                        \A j, k \in DOMAIN e : j # k => e[j][1] # e[k][1]}}

\* the options of main
Options ==
    [dcf_path |-> <<>>, heartbeat_multiplier |-> 3, retry_factor |-> 3, cob_id |-> \h680]

InitSlave ==
    /\ call \in [fn : {"from_config"}, name : {"slave_2"}, cfg : Overlays,
                 options : {Options}, dcf : {SlaveStore(254), SlaveStore(255)},
                 lint_ok : {TRUE}, no_strict : {FALSE}]
    /\ ret = NoRet
    /\ warnings = <<>>

\* Slave.from_config(name, cfg, options, args): ret holds the outcome, the Slave
\* with its list sdo, and the options as the call left them
Slave_from_config ==
    /\ call.fn = "from_config"
    /\ ret = NoRet
    /\ \E st \in {from_config(call.name, call.cfg, call.options, call.dcf, call.lint_ok,
                                 call.no_strict)} :
           /\ ret' = <<IF st.exc # "" THEN Raise(st.exc)
                       ELSE Ok([slave |-> st.slave, sdo |-> st.sdo,
                                options |-> st.options])>>
           /\ warnings' = st.warnings
    /\ UNCHANGED call

NextSlave == Slave_from_config

SpecSlave == InitSlave /\ [][NextSlave]_vars

\* C3: for every integer data type and every value in its range, concise_value
\* emits ceil(bits/8) + 7 bytes: index (u16 LE), sub-index (u8), the length
\* ceil(bits/8) (u32 LE), and the value in that many little-endian bytes, which a
\* decoder reading `length` payload bytes turns back into (index, sub, value).
C3_ConciseLayout ==
    (call.fn = "concise_value" /\ ret # NoRet) =>
        LET n == (DataType_bits(call.self) + 7) \div 8
        IN  /\ ret[1].exc = ""
            /\ Len(ret[1].value) = n + 7
            /\ concise_decode(call.self, ret[1].value)
                   = <<call.index, call.sub_index, n, call.value>>

\* the scenario of C3: (0x1017, 0, 500) as UNSIGNED16 is 17 10 00 02 00 00 00 F4 01
C3_Scenario ==
    /\ call = [fn |-> "concise_value", self |-> \h0006, index |-> \h1017,
               sub_index |-> 0, value |-> 500]
    /\ ret = <<Ok(<<\h17, \h10, \h00, \h02, \h00, \h00, \h00, \hF4, \h01>>)>>

\* the integer Python reads in the number part of a string
NumberOf(s) == python_int([s EXCEPT !.form = "number"], 0)

\* C6: a basic integer Value whose literal is $NODEID+k parses to k + env[NODEID]
\* when env defines NODEID and raises when env does not; a Value without the
\* $NODEID token parses to its literal whatever env contains.
C6_ValueNodeId ==
    (call.fn = "Value.parse" /\ ret # NoRet /\ NumberOf(call.value).exc = "") =>
        LET k == NumberOf(call.value).value
        IN  /\ (call.value.form = "var+number" /\ "NODEID" \in DOMAIN call.env)
                   => ret[1] = Ok(k + call.env["NODEID"])
            /\ (call.value.form = "var+number" /\ "NODEID" \notin DOMAIN call.env)
                   => ret[1].exc # ""
            /\ call.value.form = "number" => ret[1] = Ok(k)

\* $NODEID+0x10 with NODEID = 0x20 has parsed to 0x30
C6_Witness ==
    /\ call.fn = "Value.parse"
    /\ call.value = NodeIdPlus(Hex(\h10))
    /\ call.env = Env(\h20)
    /\ ret = <<Ok(\h30)>>

\* the case of C4: a section of an integer type with maximum >= 128 whose
\* DefaultValue is $NODEID+1, with the given LowLimit and no HighLimit
C4_Case(low) ==
    /\ call.fn = "__parse_sub_object_0"
    /\ ret # NoRet
    /\ call.section["DataType"] \in {Hex(\h0005), Hex(\h0006), Hex(\h0007)}
    /\ call.section["DefaultValue"] = NodeIdPlus(Dec(1))
    /\ "HighLimit" \notin DOMAIN call.section
    /\ "LowLimit" \in DOMAIN call.section
    /\ call.section["LowLimit"] = low

C4_Rejected ==
    ret[1] = Ok(FALSE) /\ warnings = <<<<"underflow", "DefaultValue">>>>

\* C4 as stated: DefaultValue = $NODEID+1 is accepted against LowLimit = 1,
\* rejected with an underflow warning against LowLimit = 2, and accepted against
\* LowLimit = $NODEID+1.
C4_Original ==
    /\ C4_Case(Dec(1)) => ret[1] = Ok(TRUE)
    /\ C4_Case(Dec(2)) => C4_Rejected
    /\ C4_Case(NodeIdPlus(Dec(1))) => ret[1] = Ok(TRUE)

\* C4 amended: DefaultValue = $NODEID+1 is accepted against LowLimit = 1 and
\* against LowLimit = 2 (a limit without $NODEID is lowered by 1 for a value that
\* carries it), rejected with an underflow warning against LowLimit = 3, and
\* accepted against LowLimit = $NODEID+1.
C4_NodeIdLowLimit ==
    /\ C4_Case(Dec(1)) => ret[1] = Ok(TRUE) /\ warnings = <<>>
    /\ C4_Case(Dec(2)) => ret[1] = Ok(TRUE) /\ warnings = <<>>
    /\ C4_Case(Dec(3)) => C4_Rejected
    /\ C4_Case(NodeIdPlus(Dec(1))) => ret[1] = Ok(TRUE) /\ warnings = <<>>

C4_Witness == C4_Case(Dec(2)) /\ ret[1] = Ok(TRUE)

\* the comparison C5 describes, with the shift of the high limit as a parameter:
\* limit_only applies when only the limit carries $NODEID, value_only when only
\* the value does
C5_Rule(limit_only, value_only) ==
    (/\ call.fn = "__parse_value"
     /\ ret # NoRet
     /\ call.value.form \in {"number", "var+number"}) =>
        LET dt == NumberOf(call.section["DataType"]).value
            lo == IF "LowLimit" \in DOMAIN call.section
                  THEN call.section["LowLimit"] ELSE Dec(lint_limits(dt)[1])
            hi == IF "HighLimit" \in DOMAIN call.section
                  THEN call.section["HighLimit"] ELSE Dec(lint_limits(dt)[2])
            num(x) == IF x.form = "var" THEN 0 ELSE NumberOf(x).value
            var(x) == x.form \in {"var", "var+number"}
            v == call.value
            low_shift == IF var(lo) /\ ~var(v) THEN 1
                         ELSE IF var(v) /\ ~var(lo) THEN 0 - 1 ELSE 0
            high_shift == IF var(hi) /\ ~var(v) THEN limit_only
                          ELSE IF var(v) /\ ~var(hi) THEN value_only ELSE 0
        IN  ret[1] = Ok(/\ num(v) >= num(lo) + low_shift
                        /\ num(v) <= num(hi) + high_shift)

\* C5 as stated: a limit that carries $NODEID against a value that does not is
\* shifted by +1 (low) and -127 (high); the opposite shifts apply when only the
\* value carries it; no shift when both or neither do.
C5_Original == C5_Rule(0 - 127, 127)

\* C5 amended: a limit that carries $NODEID against a value that does not is
\* shifted by +1 (low) and +127 (high); when only the value carries $NODEID the
\* limit is shifted by -1 (low) and -127 (high); no shift when both or neither do.
C5_LimitShifts == C5_Rule(127, 0 - 127)

\* a value without $NODEID above the number of a HighLimit that carries it has
\* been accepted
C5_Witness ==
    /\ call.fn = "__parse_value"
    /\ "HighLimit" \in DOMAIN call.section
    /\ call.section["HighLimit"] = NodeIdPlus(Dec(1))
    /\ call.value = Dec(128)
    /\ ret = <<Ok(TRUE)>>

\* the DefaultValue of sub-object index/k in the store of the call, Absent when
\* the store has no such section
StoreValue(index, k) ==
    IF SubName(index, k) \in DOMAIN call.cfg
    THEN call.cfg[SubName(index, k)]["DefaultValue"] ELSE Absent

\* the dictionary of C7: 0x1800 with sub0 = 6, sub1 = 0x40000180, sub2 = 1,
\* sub5 = 100 and 0x1A00 with sub0 = 1, sub1 = 0x60000108, loaded
C7_Case ==
    /\ call.fn = "Device" /\ ret # NoRet
    /\ StoreValue(\h1800, 0) = Dec(6) /\ StoreValue(\h1800, 1) = Hex(\h40000180)
    /\ StoreValue(\h1800, 2) = Dec(1) /\ StoreValue(\h1800, 5) = Dec(100)
    /\ StoreValue(\h1A00, 0) = Dec(1)
    /\ StoreValue(\h1A00, 1) = Hex((\h6000 * 65536) + \h0108)

\* C7 as stated: the TPDO of that dictionary has cob_id = 0x180, transmission
\* type 1, event timer 100, and mapping[1] is the dictionary's sub-object 0x6000/1.
C7_Original ==
    C7_Case =>
        /\ ret[1].exc = ""
        /\ ret[1].value.tpdo[1].cob_id = \h180
        /\ ret[1].value.tpdo[1].transmission_type = 1
        /\ ret[1].value.tpdo[1].event_timer = 100
        /\ ret[1].value.tpdo[1].mapping[1] = ret[1].value.obj[\h6000].sub[1]

\* C7, amended: the TPDO of that dictionary keeps the whole 32-bit word of sub1 as
\* its cob_id (0x40000180, bit 30 included), and has transmission type 1, event
\* timer 100, n = 1, and mapping[1] is the dictionary's own sub-object 0x6000/1.
C7_Reconstruction ==
    C7_Case =>
        /\ ret[1].exc = ""
        /\ ret[1].value.tpdo[1].cob_id = \h40000180
        /\ ret[1].value.tpdo[1].transmission_type = 1
        /\ ret[1].value.tpdo[1].event_timer = 100
        /\ ret[1].value.tpdo[1].event_deadline = 0
        /\ ret[1].value.tpdo[1].n = 1
        /\ DOMAIN ret[1].value.tpdo[1].mapping = {1}
        /\ ret[1].value.tpdo[1].mapping[1] = ret[1].value.obj[\h6000].sub[1]
        /\ ret[1].value.tpdo[1].mapping[1].cfg = "dcf"

C7_Witness ==
    /\ C7_Case
    /\ ret[1].exc = ""
    /\ ret[1].value.tpdo[1].mapping[1].index = \h6000
    /\ ret[1].value.tpdo[1].mapping[1].sub_index = 1

\* the PDO of the store of the call, its mapping word and the fields of the word
C8_Comm == IF ObjName(\h1800) \in DOMAIN call.cfg THEN \h1800 ELSE \h1400
C8_Word == StoreValue(C8_Comm + \h200, 1)
C8_Index == (NumberOf(C8_Word).value \div 65536) % 65536
C8_SubIndex == (NumberOf(C8_Word).value \div 256) % 256

\* a Device call on a store with one PDO whose communication parameters parse
\* ($NODEID is defined for them), finished
C8_Case ==
    /\ call.fn = "Device" /\ ret # NoRet
    /\ ObjName(C8_Comm) \in DOMAIN call.cfg
    /\ \/ "NODEID" \in DOMAIN call.env
       \/ "NodeID" \in DOMAIN call.cfg[<<"DeviceComissioning">>]
       \/ StoreValue(C8_Comm, 1).form = "number"

\* the PDO that the finished call built
C8_Pdo ==
    IF C8_Comm = \h1800 THEN ret[1].value.tpdo[1] ELSE ret[1].value.rpdo[1]

\* slot 1 holds sub-object 0 of a synthesized dummy object of type C8_Index, and
\* the dictionary has no object C8_Index
C8_Dummy ==
    /\ ret[1].exc = ""
    /\ 1 \in DOMAIN C8_Pdo.mapping
    /\ C8_Pdo.mapping[1] =
           SubObject("dummy", C8_Index, 0, EmptyDict, AccessType_init(Text("rw")).value,
                     C8_Index, Value_init(C8_Index, EmptyStr).value,
                     Value_init(C8_Index, EmptyStr).value, TRUE)
    /\ Object_from_dummy(C8_Index).value.object_type = \h05
    /\ C8_Index \notin DOMAIN ret[1].value.obj

\* slot 1 holds the dictionary's own sub-object, or the load raises KeyError when
\* the dictionary has none
C8_Own ==
    IF SubName(C8_Index, C8_SubIndex) \in DOMAIN call.cfg
    THEN /\ ret[1].exc = ""
         /\ 1 \in DOMAIN C8_Pdo.mapping
         /\ C8_Pdo.mapping[1] = ret[1].value.obj[C8_Index].sub[C8_SubIndex]
    ELSE ret[1].exc = "KeyError"

\* slot 1 stays unmapped
C8_Unmapped == ret[1].exc = "" /\ 1 \notin DOMAIN C8_Pdo.mapping

\* C8 as stated: every non-zero word with an index below 0x1000 resolves to
\* sub-object 0 of a dummy object, every other non-zero word to the dictionary's
\* own sub-object, and a zero word leaves the slot unmapped.
C8_Original ==
    (C8_Case /\ C8_Word # Absent) =>
        IF NumberOf(C8_Word).value = 0 THEN C8_Unmapped
        ELSE IF C8_Index < \h1000 THEN C8_Dummy
        ELSE C8_Own

\* C8, amended: a non-zero word with an index below 0x1000 resolves its slot to
\* sub-object 0 of a synthesized dummy object (ObjectType 0x05, DataType = index,
\* access rw, PDOMapping set, not in the dictionary) only when the index is one
\* of the named data types and the sub-index field of the word is 0; any other
\* word below 0x1000 makes the load raise KeyError.  A word at or above 0x1000
\* resolves to the dictionary's own sub-object (KeyError when it has none), and a
\* zero word or a missing mapping sub-object leaves the slot unmapped.
C8_DummyMapping ==
    C8_Case =>
        IF C8_Word = Absent \/ NumberOf(C8_Word).value = 0 THEN C8_Unmapped
        ELSE IF C8_Index < \h1000
        THEN IF C8_Index \in NamedTypes /\ C8_SubIndex = 0 THEN C8_Dummy
             ELSE ret[1].exc = "KeyError"
        ELSE C8_Own

C8_Witness ==
    /\ C8_Case
    /\ C8_Word = Hex(\h00050008)
    /\ C8_Dummy
    /\ C8_Pdo.mapping[1].data_type = \h0005

\* the number of times x occurs in seq
Count(seq, x) == Cardinality({i \in DOMAIN seq : seq[i] = x})

\* the identity cross-check of one field: when the key holds a non-empty value,
\* the Device's field is that value and the key's warning is emitted once if the
\* sub-object 0x1018/k holds a non-zero value that differs, and not otherwise
C9_Field(section, key, k, field) ==
    (<<section>> \in DOMAIN call.cfg /\ Has(call.cfg[<<section>>], key)) =>
        LET given == python_int(call.cfg[<<section>>][key], 0).value
            held == IF StoreValue(\h1018, k) = Absent THEN 0
                    ELSE python_int(StoreValue(\h1018, k), 0).value
        IN  /\ field = given
            /\ Count(warnings, key) = IF held # 0 /\ held # given THEN 1 ELSE 0

\* C9: for each identity field, when [DeviceInfo] (VendorNumber, ProductNumber,
\* RevisionNumber) or [DeviceComissioning] (LSS_SerialNumber) gives a non-empty
\* value, the constructed Device's field equals that value, and exactly one
\* warning is emitted for the field if and only if sub-object 0x1018/k holds a
\* non-zero value that differs.
C9_IdentityCrossCheck ==
    (call.fn = "Device" /\ ret # NoRet /\ ret[1].exc = "") =>
        /\ C9_Field("DeviceInfo", "VendorNumber", 1, ret[1].value.vendor_id)
        /\ C9_Field("DeviceInfo", "ProductNumber", 2, ret[1].value.product_code)
        /\ C9_Field("DeviceInfo", "RevisionNumber", 3, ret[1].value.revision_number)
        /\ C9_Field("DeviceComissioning", "LSS_SerialNumber", 4,
                    ret[1].value.serial_number)

\* the scenario of C9: 0x1018/2 = 42 with ProductNumber = 43 gives exactly one
\* warning and product_code = 43
C9_Witness ==
    /\ call.fn = "Device" /\ ret # NoRet /\ ret[1].exc = ""
    /\ StoreValue(\h1018, 2) = Dec(42)
    /\ call.cfg[<<"DeviceInfo">>] = [ProductNumber |-> Dec(43)]
    /\ StoreValue(\h1018, 1) = Dec(0) /\ StoreValue(\h1018, 3) = Absent
    /\ "LSS_SerialNumber" \notin DOMAIN call.cfg[<<"DeviceComissioning">>]
    /\ warnings = <<"ProductNumber">>
    /\ ret[1].value.product_code = 43

\* C10: applying the CompactPDO expansion (RPDO and TPDO) a second time to an
\* already expanded store changes nothing: no section, key or value is added or
\* altered, [OptionalObjects].SupportedObjects and its entries included.
C10_Idempotent ==
    call.fn = "expand_again" => ret[1] = Ok(call.cfg)

\* a second expansion of a store in which the first one created PDOs, their
\* sub-objects and mapping parameters
C10_Witness ==
    /\ call.fn = "expand_again"
    /\ ret[1] = Ok(call.cfg)
    /\ Has(call.cfg[<<"DeviceInfo">>], "CompactPDO")
    /\ call.cfg[<<"DeviceInfo">>]["CompactPDO"] = Hex(\h3F)
    /\ call.cfg[<<"OptionalObjects">>]["SupportedObjects"] = Dec(2 * MaxNrOfPDO + 2)
    /\ SubName(\h1400 + MaxNrOfPDO - 1, 6) \in DOMAIN call.cfg
    /\ call.cfg[SubName(\h1400 + MaxNrOfPDO - 1, 1)]["DefaultValue"] = HexDigits(<<8, 0, 0, 0, 0, 0, 0, 0>>)
    /\ call.cfg[ObjName(\h1A00)]["CompactSubObj"] = Hex(\h40)

\* the record that concise_value packs for a sub-object of the data type
Record(data_type, index, sub_index, value) ==
    DataType_concise_value(data_type, index, sub_index, value).value

\* the records of a PDO that is disabled under its new COB-ID, given a new
\* transmission type 255 when `retyped`, mapped to one 8-bit sub-object, and
\* enabled
C1_Records(comm, first, retyped, index, cob_id) ==
    <<Record(\h0007, comm, 1, first)>>
    \o (IF retyped THEN <<Record(\h0005, comm, 2, 255)>> ELSE <<>>)
    \o <<Record(\h0005, comm + \h200, 0, 0),
         Record(\h0007, comm + \h200, 1, (index * 65536) + \h0108),
         Record(\h0005, comm + \h200, 0, 1),
         Record(\h0007, comm, 1, cob_id)>>

\* the transmission type that RPDO1 has in the DCF
C1_Transmission == python_int(call.dcf[SubName(\h1400, 2)]["DefaultValue"], 0).value

\* from_config has returned from the overlay {dcf, rpdo: {1: {cob_id: 0x201,
\* transmission: 255, mapping: [{index: 0x6200, sub_index: 1}]}}} on a DCF whose
\* RPDO1 is enabled with COB-ID 0x200
C1_Case ==
    /\ call.fn = "from_config" /\ ret # NoRet
    /\ call.cfg = YMap(<<<<YStr("dcf"), YStr("slave.dcf")>>,
                         <<YStr("rpdo"), PdoOverlay(\h201, \h6200)>>>>)
    /\ call.dcf[SubName(\h1400, 1)]["DefaultValue"] = Hex(\h200)

\* C1 as stated: exactly six records, 0x1400/1 <- 0x80000000 | old COB-ID,
\* 0x1400/2 <- 255, 0x1600/0 <- 0, 0x1600/1 <- 0x62000108, 0x1600/0 <- 1,
\* 0x1400/1 <- 0x201.
C1_Original ==
    C1_Case =>
        /\ ret[1].exc = ""
        /\ ret[1].value.sdo = C1_Records(\h1400, OrBit31(\h200), TRUE, \h6200, \h201)

\* C1, amended: the first record disables the PDO under its new COB-ID, 0x1400/1
\* <- 0x80000000 | 0x201; the record 0x1400/2 <- 255 follows only when the
\* current transmission type is not 255 already; then 0x1600/0 <- 0, 0x1600/1 <-
\* 0x62000108, 0x1600/0 <- 1, 0x1400/1 <- 0x201: six records, or five when the
\* transmission type does not change.
C1_DisableThenEnable ==
    C1_Case =>
        /\ ret[1].exc = ""
        /\ ret[1].value.sdo =
               C1_Records(\h1400, OrBit31(\h201), C1_Transmission # 255, \h6200, \h201)

C1_Witness ==
    /\ C1_Case
    /\ ret[1].exc = ""
    /\ C1_Transmission = 254
    /\ Len(ret[1].value.sdo) = 6
    /\ ret[1].value.sdo[1] = <<\h00, \h14, \h01, \h04, \h00, \h00, \h00,
                               \h01, \h02, \h00, \h80>>
    /\ ret[1].value.sdo[4] = <<\h00, \h16, \h01, \h04, \h00, \h00, \h00,
                               \h08, \h01, \h00, \h62>>

\* the keys of the overlay of the call behind dcf, in listing order
C2_Listed == [j \in 1 .. Len(call.cfg.items) - 1 |-> call.cfg.items[j + 1][1].str]

\* the order in which the code of from_config comes to the keys
C2_CodeOrder ==
    <<"heartbeat_producer", "guard_time", "error_behavior", "rpdo", "tpdo", "sdo">>

\* the records that the entry of OverlayEntries with the key makes from_config
\* append on the DCF of the call; those of the sdo list are in listing order
C2_Records(key) ==
    CASE key = "heartbeat_producer" -> <<Record(\h0006, \h1017, 0, 500)>>
      [] key = "guard_time" -> <<Record(\h0006, \h100C, 0, 100)>>
      [] key = "error_behavior" -> <<Record(\h0005, \h1029, 1, 2)>>
      [] key = "rpdo" ->
           C1_Records(\h1400, OrBit31(\h201), C1_Transmission # 255, \h6200, \h201)
      [] key = "tpdo" -> C1_Records(\h1800, OrBit31(\h181), TRUE, \h6000, \h181)
      [] key = "sdo" -> <<Record(\h0005, \h6200, 1, 7), Record(\h0006, \h1017, 0, 9)>>

\* the records of the keys of seq that the overlay of the call holds, in the
\* order of seq
RECURSIVE C2_Concat(_)
C2_Concat(seq) ==
    IF seq = <<>> THEN <<>>
    ELSE (IF YHas(call.cfg, Head(seq)) THEN C2_Records(Head(seq)) ELSE <<>>)
             \o C2_Concat(Tail(seq))

Key(word, caps) == [word |-> word, caps |-> caps]

\* the default key_xform: str.lower()
key_xform(key) == [key EXCEPT !.caps = {}]

\* OrderedDict.__setitem__: an existing key keeps its position
OrderedDict_setitem(d, k, item) ==
    IF \E j \in 1 .. Len(d) : d[j].k = k
    THEN [j \in 1 .. Len(d) |-> IF d[j].k = k THEN [k |-> k, item |-> item] ELSE d[j]]
    ELSE Append(d, [k |-> k, item |-> item])

\* OrderedDict.__delitem__ on a key that is present
OrderedDict_delitem(d, k) == SelectSeq(d, LAMBDA e : e.k # k)

IniDict_setitem_mutant(self, key, value) ==
    IF \E j \in 1 .. Len(self) : self[j].k = key_xform(key)
    THEN [j \in 1 .. Len(self) |->
             IF self[j].k = key_xform(key) THEN [self[j] EXCEPT !.item[2] = value]
             ELSE self[j]]
    ELSE Append(self, [k |-> key_xform(key), item |-> <<key, value>>])

\* IniDict.__setitem__: the entry is the tuple (key, value) under key_xform(key)
IniDict_setitem(self, key, value) == OrderedDict_setitem(self, key_xform(key), <<key, value>>)

\* IniDict.__delitem__
IniDict_delitem(self, key) ==
    IF \E j \in 1 .. Len(self) : self[j].k = key_xform(key)
    THEN Ok(OrderedDict_delitem(self, key_xform(key)))
    ELSE Raise("KeyError")

\* IniDict.__getitem__
IniDict_getitem(self, key) ==
    IF \E j \in 1 .. Len(self) : self[j].k = key_xform(key)
    THEN Ok(self[CHOOSE j \in 1 .. Len(self) : self[j].k = key_xform(key)].item[2])
    ELSE Raise("KeyError")

\* list(IniDict.__iter__()): the first component of every stored tuple
IniDict_iter(self) == [j \in 1 .. Len(self) |-> self[j].item[1]]

(***************************************************************************)
(* Specification SpecIniDict: assignments to and deletions from one        *)
(* IniDict.  call.self is the dict, call.first the casing under which each *)
(* key that is present was inserted, call.last the casing of its latest    *)
(* assignment; ret is list(iter(self)) after the operation.                *)
(***************************************************************************)
MaxAssign == 3

IniKeys ==
    {Key(w, c) : w \in {"nodeid", "name"}, c \in {{}, {1}, {1, 2, 3, 4, 5, 6}}}

InitIniDict ==
    /\ call = [fn |-> "IniDict", self |-> <<>>, first |-> EmptyDict, last |-> EmptyDict,
               n |-> 0]
    /\ ret = NoRet
    /\ warnings = <<>>

\* self[key] = value
setitem ==
    /\ call.fn = "IniDict"
    /\ call.n < MaxAssign
    /\ \E key \in IniKeys, value \in {1, 2} :
           /\ call' = [call EXCEPT
                         !.self = IniDict_setitem(@, key, value),
                         !.first = IF key_xform(key) \in DOMAIN @ THEN @
                                   ELSE (key_xform(key) :> key) @@ @,
                         !.last = (key_xform(key) :> key) @@ @,
                         !.n = @ + 1]
           /\ ret' = <<Ok(IniDict_iter(call'.self))>>
    /\ UNCHANGED warnings

\* del self[key]
delitem ==
    /\ call.fn = "IniDict"
    /\ call.n < MaxAssign
    /\ \E key \in IniKeys :
           \E r \in {IniDict_delitem(call.self, key)} :
               /\ call' = IF r.exc # "" THEN [call EXCEPT !.n = @ + 1]
                          ELSE [call EXCEPT
                                  !.self = r.value,
                                  !.first = [k \in DOMAIN @ \ {key_xform(key)} |-> @[k]],
                                  !.last = [k \in DOMAIN @ \ {key_xform(key)} |-> @[k]],
                                  !.n = @ + 1]
               /\ ret' = <<IF r.exc # "" THEN r ELSE Ok(IniDict_iter(r.value))>>
    /\ UNCHANGED warnings

NextIniDict == setitem \/ delitem

SpecIniDict == InitIniDict /\ [][NextIniDict]_vars

\* the keys that iteration yields
C11_Iterated == {IniDict_iter(call.self)[j] : j \in 1 .. Len(call.self)}

startswith_dot(name) == name \in {".anchors"}

\* one pass of `for name in cfg:` of main, on item k of the file, in the state
\* run of main (options, slaves, warnings, exc)
main_slave_item(run, item, files) ==
    LET name == item[1].str
    IN  IF name = "master" \/ name = "options" \/ startswith_dot(name) THEN run
        ELSE CHOOSE out \in {
                 IF st.exc # ""
                 THEN [run EXCEPT !.exc = st.exc, !.warnings = @ \o st.warnings,
                                  !.options = st.options]
                 ELSE IF st.slave.node_id # 255
                 THEN [run EXCEPT !.warnings = @ \o st.warnings, !.options = st.options,
                                  !.slaves = Append(@, [name |-> name, slave |-> st.slave,
                                                        sdo |-> st.sdo])]
                 ELSE [run EXCEPT !.warnings = @ \o st.warnings
                                                 \o <<<<"unconfigured node-ID", name>>>>,
                                  !.options = st.options]
               : st \in {from_config(name, item[2], run.options,
                                     files[python_str(YGet(item[2], "dcf"))], TRUE,
                                     FALSE)}} : TRUE

(***************************************************************************)
(* dcfgen/cli.py: Master.  The running state of Master.from_config is a    *)
(* record st: the exception raised so far, the warnings emitted, the       *)
(* Master (its list sdo included) and the slaves, a sequence in the order  *)
(* of the dict, each with its Slave and the list slave.sdo.                *)
(***************************************************************************)
\* Master.__init__
Master_init ==
    [node_id |-> 255, baudrate |-> 1000, vendor_id |-> 0, product_code |-> 0,
     revision_number |-> 0, serial_number |-> 0, sync_period |-> 0, sync_window |-> 0,
     sync_overflow |-> 0, time_cob_id |-> \h100, emcy_inhibit_time |-> 0,
     heartbeat_multiplier |-> 1, heartbeat_consumer |-> TRUE, heartbeat_producer |-> 0,
     error_behavior |-> (1 :> 0), nmt_inhibit_time |-> 0, start |-> 1,
     start_nodes |-> 1, start_all_nodes |-> 0, reset_all_nodes |-> 0,
     stop_all_nodes |-> 0, boot_time |-> 0, sdo |-> <<>>]

\* the blocks `if key in cfg: master.key = int(cfg[key])` for the keys from
\* keys[k] on
RECURSIVE master_ints(_, _, _, _)
master_ints(st, cfg, keys, k) ==
    IF st.exc # "" \/ k > Len(keys) THEN st
    ELSE CHOOSE out \in {master_ints(next, cfg, keys, k + 1) : next \in {
             IF ~YHas(cfg, keys[k]) THEN st
             ELSE IF python_int_node(YGet(cfg, keys[k])).exc # ""
             THEN [st EXCEPT !.exc = python_int_node(YGet(cfg, keys[k])).exc]
             ELSE [st EXCEPT !.master[keys[k]] =
                       python_int_node(YGet(cfg, keys[k])).value]}} : TRUE

\* dcf.UNSIGNED32.concise_value(index, sub_index, value) appended to master.sdo
master_append(st, index, sub_index, value) ==
    CHOOSE out \in {
        IF r.exc # "" THEN [st EXCEPT !.exc = r.exc]
        ELSE [st EXCEPT !.master.sdo = Append(@, r.value)]
      : r \in {DataType_concise_value(\h0007, index, sub_index, value)}} : TRUE

\* the record of the serial number of the master
master_serial(st) ==
    IF st.exc = "" /\ st.master.serial_number # 0
    THEN master_append(st, \h1018, 4, st.master.serial_number)
    ELSE st

\* the blocks of heartbeat_multiplier, heartbeat_consumer and
\* heartbeat_producer (the multiplier is a float in the code; the overlays here
\* give integers)
master_heartbeat_settings(st, cfg, options) ==
    IF st.exc # "" THEN st
    ELSE master_ints([st EXCEPT !.master.heartbeat_multiplier =
                                    options.heartbeat_multiplier,
                                !.master.heartbeat_consumer =
                                    IF YHas(cfg, "heartbeat_consumer")
                                    THEN python_bool(YGet(cfg, "heartbeat_consumer"))
                                    ELSE @],
                     cfg, <<"heartbeat_multiplier", "heartbeat_producer">>, 1)

\* the loop over cfg["error_behavior"].items() from entry k on
RECURSIVE master_error_behavior(_, _, _)
master_error_behavior(st, items, k) ==
    IF st.exc # "" \/ k > Len(items) THEN st
    ELSE CHOOSE out \in {master_error_behavior(next, items, k + 1) : next \in {
             IF FirstExc(<<python_int_node(items[k][1]), python_int_node(items[k][2])>>)
                    # ""
             THEN [st EXCEPT !.exc = FirstExc(<<python_int_node(items[k][1]),
                                                python_int_node(items[k][2])>>)]
             ELSE [st EXCEPT !.master.error_behavior =
                       (python_int_node(items[k][1]).value
                            :> python_int_node(items[k][2]).value) @@ @]}} : TRUE

\* (value >> 16) & 0xFF and value & 0xFFFF of an entry of object 0x1016
consumer_node_id(value) == (value \div 65536) % 256
consumer_heartbeat_time(value) == value % 65536

\* consumer_find with a first loop that stops at unused entries as well
RECURSIVE consumer_find_mutant(_, _, _, _)
consumer_find_mutant(obj, sub_index, first, node_id) ==
    IF sub_index > Max(DOMAIN obj[\h1016].sub) THEN Ok(0)
    ELSE IF sub_index \notin DOMAIN obj[\h1016].sub
    THEN consumer_find_mutant(obj, sub_index + 1, first, node_id)
    ELSE CHOOSE out \in {
             IF value.exc # "" THEN value
             ELSE IF consumer_node_id(value.value) = node_id
                     \/ consumer_heartbeat_time(value.value) = 0
                     \/ consumer_node_id(value.value) = 0
                     \/ consumer_node_id(value.value) > 127
             THEN Ok(sub_index)
             ELSE consumer_find_mutant(obj, sub_index + 1, first, node_id)
           : value \in {Item(obj, \h1016, sub_index)}} : TRUE

\* one of the two loops over slave[0x1016].values() that look for the entry to
\* write, from sub-index sub_index on: the first looks for the entry of the
\* master, the second for an unused entry; the outcome is the sub-index found, 0
\* when the loop ends without break
RECURSIVE consumer_find(_, _, _, _)
consumer_find(obj, sub_index, first, node_id) ==
    IF sub_index > Max(DOMAIN obj[\h1016].sub) THEN Ok(0)
    ELSE IF sub_index \notin DOMAIN obj[\h1016].sub
    THEN consumer_find(obj, sub_index + 1, first, node_id)
    ELSE CHOOSE out \in {
             IF value.exc # "" THEN value
             ELSE IF first /\ consumer_node_id(value.value) = node_id THEN Ok(sub_index)
             ELSE IF ~first /\ (consumer_heartbeat_time(value.value) = 0
                                \/ consumer_node_id(value.value) = 0
                                \/ consumer_node_id(value.value) > 127)
             THEN Ok(sub_index)
             ELSE consumer_find(obj, sub_index + 1, first, node_id)
           : value \in {Item(obj, \h1016, sub_index)}} : TRUE

\* slave.sdo.insert(0, slave.concise_value(0x1016, sub_index, value)) for the
\* slave j
consumer_insert(st, j, sub_index, value) ==
    CHOOSE out \in {
        IF r.exc # "" THEN [st EXCEPT !.exc = r.exc, !.warnings = @ \o r.warnings]
        ELSE [st EXCEPT !.warnings = @ \o r.warnings,
                        !.slaves[j].sdo = r.sdo \o @]
      : r \in {Emit([exc |-> "", warnings |-> <<>>, sdo |-> <<>>],
                    st.slaves[j].slave.obj, \h1016, sub_index, value)}} : TRUE

\* the loop of the slave j that does not consume the heartbeat of the master,
\* from sub-index sub_index on: the entries that name the master are cleared
RECURSIVE consumer_clear(_, _, _)
consumer_clear(st, j, sub_index) ==
    IF st.exc # "" \/ sub_index > Max(DOMAIN st.slaves[j].slave.obj[\h1016].sub) THEN st
    ELSE IF sub_index \notin DOMAIN st.slaves[j].slave.obj[\h1016].sub
    THEN consumer_clear(st, j, sub_index + 1)
    ELSE CHOOSE out \in {consumer_clear(next, j, sub_index + 1) : next \in {
             IF Item(st.slaves[j].slave.obj, \h1016, sub_index).exc # ""
             THEN [st EXCEPT !.exc = Item(st.slaves[j].slave.obj, \h1016, sub_index).exc]
             ELSE IF consumer_heartbeat_time(
                         Item(st.slaves[j].slave.obj, \h1016, sub_index).value) # 0
                     /\ consumer_node_id(
                            Item(st.slaves[j].slave.obj, \h1016, sub_index).value)
                          = st.master.node_id
             THEN consumer_insert(st, j, sub_index,
                                  Shl16(consumer_node_id(Item(st.slaves[j].slave.obj,
                                                              \h1016, sub_index).value)))
             ELSE st}} : TRUE

\* the body of the first loop over slaves.values() for the slave j; heartbeat is
\* int(master.heartbeat_producer * master.heartbeat_multiplier)
master_consumer(st, j, heartbeat) ==
    IF st.slaves[j].slave.heartbeat_consumer /\ heartbeat > 0
    THEN IF \h1016 \in DOMAIN st.slaves[j].slave.obj
         THEN CHOOSE out \in {
                  IF found.exc # "" THEN [st EXCEPT !.exc = found.exc]
                  ELSE IF found.value # 0
                  THEN consumer_insert(st, j, found.value,
                                       (st.master.node_id % 256) * 65536
                                           + (heartbeat % 65536))
                  ELSE [st EXCEPT !.warnings =
                            Append(@, <<"no unused entry", st.slaves[j].name>>)]
                : found \in {
                      CHOOSE out1 \in {
                          IF mine.exc # "" \/ mine.value # 0 THEN mine
                          ELSE consumer_find(st.slaves[j].slave.obj, 1, FALSE,
                                             st.master.node_id)
                        : mine \in {consumer_find(st.slaves[j].slave.obj, 1, TRUE,
                                                  st.master.node_id)}} : TRUE}} : TRUE
         ELSE [st EXCEPT !.warnings =
                   Append(@, <<"does not exist", \h1016, st.slaves[j].name>>)]
    ELSE IF \h1016 \in DOMAIN st.slaves[j].slave.obj
    THEN consumer_clear(st, j, 1)
    ELSE st

\* the first loop over slaves.values(), from the slave j on
RECURSIVE master_consumers(_, _)
master_consumers(st, j) ==
    IF st.exc # "" \/ j > Len(st.slaves) THEN st
    ELSE CHOOSE out \in {master_consumers(next, j + 1) : next \in {
             master_consumer(st, j, st.master.heartbeat_producer
                                        * st.master.heartbeat_multiplier)}} : TRUE

\* master_version without the test for the sub-object of 0x1018
master_version_mutant(st, j, index, field, needs) ==
    IF st.exc = "" /\ st.slaves[j].slave[field] # 0
    THEN master_append(st, index, st.slaves[j].slave.node_id, st.slaves[j].slave[field])
    ELSE st

\* one of the three records of the second loop for the slave j
master_version(st, j, index, field, needs) ==
    IF st.exc = "" /\ st.slaves[j].slave[field] # 0
       /\ (needs = 0 \/ needs \in DOMAIN st.slaves[j].slave.obj[\h1018].sub)
    THEN master_append(st, index, st.slaves[j].slave.node_id, st.slaves[j].slave[field])
    ELSE st

\* the second loop over slaves.values(), from the slave j on
RECURSIVE master_versions(_, _)
master_versions(st, j) ==
    IF st.exc # "" \/ j > Len(st.slaves) THEN st
    ELSE CHOOSE out \in {master_versions(next, j + 1) : next \in {
             master_version(
                 master_version(master_version(st, j, \h1F55, "software_version", 0),
                                j, \h1F87, "revision_number", 3),
                 j, \h1F88, "serial_number", 4)}} : TRUE

\* block k of Master.from_config, in the order of the code
Master_from_config_block(k, st, cfg, options) ==
    CASE k = 1 -> master_ints(st, cfg, <<"node_id", "baudrate", "vendor_id",
                                         "product_code", "revision_number",
                                         "serial_number">>, 1)
      [] k = 2 -> master_serial(st)
      [] k = 3 -> master_ints(st, cfg, <<"sync_period", "sync_window", "sync_overflow",
                                         "time_cob_id", "emcy_inhibit_time">>, 1)
      [] k = 4 -> master_heartbeat_settings(st, cfg, options)
      [] k = 5 -> IF YHas(cfg, "error_behavior")
                  THEN master_error_behavior(st, YGet(cfg, "error_behavior").items, 1)
                  ELSE st
      [] k = 6 -> master_ints(st, cfg, <<"nmt_inhibit_time", "start", "start_nodes",
                                         "start_all_nodes", "reset_all_nodes",
                                         "stop_all_nodes", "boot_time">>, 1)
      [] k = 7 -> master_consumers(st, 1)
      [] k = 8 -> master_versions(st, 1)

\* the blocks from k on, up to the return or the first exception
RECURSIVE Master_from_config_blocks(_, _, _, _)
Master_from_config_blocks(k, st, cfg, options) ==
    IF k > 8 \/ st.exc # "" THEN st
    ELSE CHOOSE out \in {Master_from_config_blocks(k + 1, next, cfg, options)
                           : next \in {Master_from_config_block(k, st, cfg, options)}}
             : TRUE

\* Master.from_config(cfg, options, slaves)
Master_from_config(cfg, options, slaves) ==
    Master_from_config_blocks(1, [exc |-> "", warnings |-> <<>>, master |-> Master_init,
                                  slaves |-> slaves],
                              cfg, options)

(***************************************************************************)
(* Specification SpecMain: main on a YAML file, one pass of its loop over  *)
(* the slaves at a time, then Master.from_config.  call.options and        *)
(* call.slaves are the dicts of main; call.drawn is the number of COB-IDs  *)
(* that the slaves listed before the ones of call.cfg drew from            *)
(* options["cob_id"].                                                      *)
(***************************************************************************)
\* the DCF of the slaves: RPDO 1, 5 and 6 and TPDO 1 and 5, each mapping one
\* sub-object, the PDOs 5 and 6 disabled
MainStore ==
    DeviceStore([VendorNumber |-> Absent], [NodeID |-> Absent],
                <<Dec(1), Absent, Dec(7), Dec(9)>>,
                <<\h1400, \h1404, \h1405, \h1600, \h1604, \h1605, \h1800, \h1804,
                  \h1A00, \h1A04, \h6000, \h6200>>,
                (ObjName(\h1400) :> RecordSection(3))
                @@ Sub(\h1400, 0, \h0005, Dec(2))
                @@ Sub(\h1400, 1, \h0007, NodeIdPlus(Hex(\h200)))
                @@ Sub(\h1400, 2, \h0005, Dec(255))
                @@ (ObjName(\h1404) :> RecordSection(3))
                @@ Sub(\h1404, 0, \h0005, Dec(2))
                @@ Sub(\h1404, 1, \h0007, HexDigits(<<8, 0, 0, 0, 0, 3, 0, 5>>))
                @@ Sub(\h1404, 2, \h0005, Dec(255))
                @@ (ObjName(\h1405) :> RecordSection(3))
                @@ Sub(\h1405, 0, \h0005, Dec(2))
                @@ Sub(\h1405, 1, \h0007, HexDigits(<<8, 0, 0, 0, 0, 0, 0, 0>>))
                @@ Sub(\h1405, 2, \h0005, Dec(255))
                @@ (ObjName(\h1600) :> RecordSection(2))
                @@ Sub(\h1600, 0, \h0005, Dec(1))
                @@ Sub(\h1600, 1, \h0007, Hex((\h6200 * 65536) + \h0108))
                @@ (ObjName(\h1604) :> RecordSection(2))
                @@ Sub(\h1604, 0, \h0005, Dec(1))
                @@ Sub(\h1604, 1, \h0007, Hex((\h6200 * 65536) + \h0108))
                @@ (ObjName(\h1605) :> RecordSection(2))
                @@ Sub(\h1605, 0, \h0005, Dec(1))
                @@ Sub(\h1605, 1, \h0007, Hex((\h6200 * 65536) + \h0108))
                @@ (ObjName(\h1800) :> RecordSection(3))
                @@ Sub(\h1800, 0, \h0005, Dec(2))
                @@ Sub(\h1800, 1, \h0007, NodeIdPlus(Hex(\h180)))
                @@ Sub(\h1800, 2, \h0005, Dec(255))
                @@ (ObjName(\h1804) :> RecordSection(3))
                @@ Sub(\h1804, 0, \h0005, Dec(2))
                @@ Sub(\h1804, 1, \h0007, HexDigits(<<8, 0, 0, 0, 0, 0, 0, 0>>))
                @@ Sub(\h1804, 2, \h0005, Dec(255))
                @@ (ObjName(\h1A00) :> RecordSection(2))
                @@ Sub(\h1A00, 0, \h0005, Dec(1))
                @@ Sub(\h1A00, 1, \h0007, Hex((\h6000 * 65536) + \h0108))
                @@ (ObjName(\h1A04) :> RecordSection(2))
                @@ Sub(\h1A04, 0, \h0005, Dec(1))
                @@ Sub(\h1A04, 1, \h0007, Hex((\h6000 * 65536) + \h0108))
                @@ (ObjName(\h6000) :> RecordSection(2))
                @@ Sub(\h6000, 0, \h0005, Dec(1)) @@ Sub(\h6000, 1, \h0005, Dec(0))
                @@ (ObjName(\h6200) :> RecordSection(2))
                @@ Sub(\h6200, 0, \h0005, Dec(1)) @@ Sub(\h6200, 1, \h0005, Dec(0)))

\* the overlay {i: {cob_id: auto}, ...} of cfg["rpdo"] or cfg["tpdo"], for the
\* PDO numbers of seq in that order
AutoPdos(seq) ==
    YMap([j \in 1 .. Len(seq) |->
             <<YInt(seq[j]), YMap(<<<<YStr("cob_id"), YStr("auto")>>>>)>>])

\* the rpdo and tpdo entries of a slave that asks for COB-IDs
AutoOverlays ==
    {<<>>,
     <<<<YStr("rpdo"), AutoPdos(<<5>>)>>>>,
     <<<<YStr("rpdo"), AutoPdos(<<6, 5>>)>>>>,
     <<<<YStr("tpdo"), AutoPdos(<<5>>)>>, <<YStr("rpdo"), AutoPdos(<<1, 5>>)>>>>,
     <<<<YStr("tpdo"), AutoPdos(<<1>>)>>>>}

\* the item of a slave in the YAML file
SlaveItem(name, node_id, entries) ==
    <<YStr(name),
      YMap(<<<<YStr("dcf"), YStr("slave.dcf")>>, <<YStr("node_id"), YInt(node_id)>>>>
           \o entries)>>

\* the most COB-IDs that the slaves listed earlier drew
MaxDrawn == 95

\* a run of main: the YAML file cfg, the DCFs files, and drawn COB-IDs gone
MainRun(drawn, cfg, files) ==
    [fn |-> "main", drawn |-> drawn, k |-> 1, slaves |-> <<>>,
     options |-> [Options EXCEPT !.cob_id = @ + drawn], files |-> files, cfg |-> cfg]

\* the runs of the COB-ID pool: two slaves behind the master
CobIdRuns ==
    {MainRun(d, YMap(<<<<YStr("options"), YMap(<<>>)>>,
                       <<YStr("master"), YMap(<<<<YStr("node_id"), YInt(1)>>>>)>>,
                       SlaveItem("slave_2", 2, a), SlaveItem("slave_3", 3, b)>>),
             [f \in {"slave.dcf"} |-> MainStore]) :
        d \in {0, MaxDrawn - 1, MaxDrawn}, a \in AutoOverlays, b \in AutoOverlays}

\* the DCF of a slave with the identity object id and the three entries e of
\* object 0x1016
ConsumerStore(id, e) ==
    DeviceStore([VendorNumber |-> Absent], [NodeID |-> Absent], id, <<\h1016>>,
                (ObjName(\h1016) :> RecordSection(4))
                @@ Sub(\h1016, 0, \h0005, Dec(3))
                @@ Sub(\h1016, 1, \h0007, e[1])
                @@ Sub(\h1016, 2, \h0007, e[2])
                @@ Sub(\h1016, 3, \h0007, e[3]))

\* the entries of object 0x1016: unused, the heartbeat of node 1, of node 2, of
\* node 1 with time 0, of the node-ID 128, and no entry
ConsumerEntries ==
    {Dec(0), Hex(\h10064), Hex(\h20064), Hex(\h10000), Hex(\h800064), Absent}

\* the entries of a slave overlay that Master.from_config reads
ConsumerOverlays ==
    {<<>>, <<<<YStr("heartbeat_consumer"), YBool(TRUE)>>>>}

\* a heartbeat producer time whose product with the multiplier 3 of the
\* options is above 0xFFFF
LongProducerTime == 30000

\* the runs of the heartbeat consumers: a master that produces no heartbeat,
\* one every 50 ms or one every 30 s, ahead of one slave
ConsumerRuns ==
    {MainRun(0, YMap(<<<<YStr("master"),
                         YMap(<<<<YStr("node_id"), YInt(1)>>>> \o m)>>,
                       SlaveItem("slave_2", 2, a)>>),
             [f \in {"slave.dcf"} |->
                 ConsumerStore(<<Dec(1), Absent, Absent, Absent>>, e)]) :
        m \in {<<>>, <<<<YStr("heartbeat_producer"), YInt(50)>>>>,
              <<<<YStr("heartbeat_producer"), YInt(LongProducerTime)>>>>},
        a \in ConsumerOverlays,
        e \in {x \in [1 .. 3 -> ConsumerEntries] : x[1] # Absent /\ x[3] # Hex(\h10000)}}

\* the entries about versions in the overlay of a slave
VersionOverlays ==
    {sw \o rev \o ser :
        sw \in {<<>>, <<<<YStr("software_version"), YInt(0)>>>>,
                <<<<YStr("software_version"), YInt(3)>>>>},
        rev \in {<<>>, <<<<YStr("revision_number"), YInt(5)>>>>},
        ser \in {<<>>, <<<<YStr("serial_number"), YInt(6)>>>>}}

\* the runs of the versions: a master with a serial number or none, two slaves,
\* the first with an identity object with or without the sub-objects 3 and 4
VersionRuns ==
    {MainRun(0, YMap(<<SlaveItem("slave_3", 3, a),
                       <<YStr("master"), YMap(m)>>,
                       SlaveItem("slave_2", 2,
                                 <<<<YStr("software_version"), YInt(4)>>>>)>>),
             [f \in {"slave.dcf"} |->
                 ConsumerStore(<<Dec(1), Absent, id3, id4>>,
                               <<Dec(0), Dec(0), Dec(0)>>)]) :
        m \in {<<>>, <<<<YStr("serial_number"), YInt(0)>>>>,
               <<<<YStr("serial_number"), YInt(8)>>>>},
        a \in VersionOverlays,
        id3 \in {Absent, Dec(0), Dec(7)}, id4 \in {Absent, Dec(9)}}

InitMain ==
    /\ call \in CobIdRuns \cup ConsumerRuns \cup VersionRuns
    /\ ret = NoRet
    /\ warnings = <<>>

\* one pass of `for name in cfg:`
main_slave ==
    /\ call.fn = "main"
    /\ ret = NoRet
    /\ call.k <= Len(call.cfg.items)
    /\ \E run \in {main_slave_item([exc |-> "", warnings |-> <<>>,
                                    options |-> call.options, slaves |-> call.slaves],
                                   call.cfg.items[call.k], call.files)} :
           /\ call' = [call EXCEPT !.k = @ + 1, !.options = run.options,
                                   !.slaves = run.slaves]
           /\ ret' = IF run.exc # "" THEN <<Raise(run.exc)>> ELSE NoRet
           /\ warnings' = warnings \o run.warnings

\* master = Master.from_config(cfg["master"], options, slaves): ret holds the
\* Master, call.slaves the slaves as from_config left them
main_master ==
    /\ call.fn = "main"
    /\ ret = NoRet
    /\ call.k > Len(call.cfg.items)
    /\ \E st \in {IF YHas(call.cfg, "master")
                  THEN Master_from_config(YGet(call.cfg, "master"), call.options,
                                          call.slaves)
                  ELSE [exc |-> "KeyError", warnings |-> <<>>, master |-> Master_init,
                        slaves |-> call.slaves]} :
           /\ call' = [call EXCEPT !.slaves = st.slaves]
           /\ ret' = <<IF st.exc # "" THEN Raise(st.exc) ELSE Ok(st.master)>>
           /\ warnings' = warnings \o st.warnings

NextMain == main_slave \/ main_master

SpecMain == InitMain /\ [][NextMain]_vars

(***************************************************************************)
(* C12: the pool of COB-IDs that "auto" draws from.                         *)
(***************************************************************************)
\* the PDOs of cfg[kind] that ask for "auto", in the order of the overlay
AutoOf(cfg, kind) ==
    IF YHas(cfg, kind)
    THEN [j \in 1 .. Len(YGet(cfg, kind).items) |->
             [kind |-> kind, n |-> YGet(cfg, kind).items[j][1].int,
              auto |-> YHas(YGet(cfg, kind).items[j][2], "cob_id")
                       /\ YGet(YGet(cfg, kind).items[j][2], "cob_id") = YStr("auto")]]
    ELSE <<>>

\* the requests for "auto" of one slave in processing order: cfg["rpdo"], then
\* cfg["tpdo"]
AutoRequests(cfg) ==
    SelectSeq(AutoOf(cfg, "rpdo") \o AutoOf(cfg, "tpdo"), LAMBDA r : r.auto)

\* those of them that draw from the pool
PoolRequests(cfg) == SelectSeq(AutoRequests(cfg), LAMBDA r : r.n > 4)

\* the overlay of the slave called name
SlaveCfg(name) ==
    YGet(call.cfg, name)

\* the COB-IDs that the slaves stored so far got for their pool requests, in
\* processing order
RECURSIVE PoolAssigned(_)
PoolAssigned(k) ==
    IF k > Len(call.slaves) THEN <<>>
    ELSE [j \in 1 .. Len(PoolRequests(SlaveCfg(call.slaves[k].name))) |->
             call.slaves[k].slave[PoolRequests(SlaveCfg(call.slaves[k].name))[j].kind]
                 [PoolRequests(SlaveCfg(call.slaves[k].name))[j].n].cob_id]
         \o PoolAssigned(k + 1)

\* the state side of C12
C12_Assigned ==
    call.fn = "main" =>
        /\ \A j \in 1 .. Len(PoolAssigned(1)) :
               /\ PoolAssigned(1)[j] = \h680 + call.drawn + (j - 1)
               /\ PoolAssigned(1)[j] < \h6E0
        /\ \A j, l \in 1 .. Len(PoolAssigned(1)) :
               j < l => PoolAssigned(1)[j] < PoolAssigned(1)[l]
        /\ \A k \in 1 .. Len(call.slaves) :
               \A j \in 1 .. Len(AutoRequests(SlaveCfg(call.slaves[k].name))) :
                   AutoRequests(SlaveCfg(call.slaves[k].name))[j].n <= 4 =>
                       call.slaves[k].slave
                           [AutoRequests(SlaveCfg(call.slaves[k].name))[j].kind]
                           [AutoRequests(SlaveCfg(call.slaves[k].name))[j].n].cob_id
                         = AutoRequests(SlaveCfg(call.slaves[k].name))[j].n * \h100
                           + (IF AutoRequests(SlaveCfg(call.slaves[k].name))[j].kind
                                    = "tpdo"
                              THEN \h80 ELSE \h100)
                           + call.slaves[k].slave.node_id
        /\ ret = NoRet => call.options.cob_id = \h680 + call.drawn + Len(PoolAssigned(1))

\* the step side of C12: a pass of the loop over a slave
C12_Draw ==
    (call.fn = "main" /\ call'.fn = "main" /\ call'.k = call.k + 1
     /\ call.cfg.items[call.k][1].str \notin {"master", "options"}) =>
        IF call.options.cob_id + Len(PoolRequests(call.cfg.items[call.k][2])) > \h6E0
        THEN /\ ret' = <<Raise("ValueError")>>
             /\ call'.slaves = call.slaves
        ELSE /\ ret' # <<Raise("ValueError")>>
             /\ ret' = NoRet =>
                    call'.options.cob_id
                        = call.options.cob_id
                          + Len(PoolRequests(call.cfg.items[call.k][2]))

\* C12: the COB-IDs that "auto" assigns to PDOs above the fourth are, in
\* processing order over all slaves of the run, the values of one counter that
\* starts at options.cob_id: increasing, distinct and below 0x6E0; the slave
\* whose request would get 0x6E0 or more ends the run with ValueError; for the
\* first four PDOs "auto" is the default base plus the node-ID and leaves the
\* counter alone
C12_Pool == [](C12_Assigned) /\ [][C12_Draw]_vars

\* two slaves drew from the pool one after the other, a slave got the default
\* of one of its first four PDOs
C12_Witness ==
    /\ call.fn = "main"
    /\ ret = NoRet
    /\ Len(call.slaves) = 2
    /\ Len(PoolRequests(SlaveCfg(call.slaves[1].name))) = 2
    /\ Len(PoolRequests(SlaveCfg(call.slaves[2].name))) = 2
    /\ Len(AutoRequests(SlaveCfg(call.slaves[2].name))) = 3
    /\ call.options.cob_id = \h680 + 4

\* the pool ran out in the middle of the run
C12_WitnessFull ==
    /\ call.fn = "main"
    /\ ret = <<Raise("ValueError")>>
    /\ Len(call.slaves) = 1
    /\ call.options.cob_id = \h6E0

(***************************************************************************)
(* Specification SpecOverlay: Slave.from_config on the overlays of one PDO *)
(* and of the scalar objects, over the DCFs SlaveStore and MainStore.      *)
(***************************************************************************)
\* the values of cob_id in the overlay of a PDO: none, an enabled COB-ID, a
\* COB-ID with bit 31 set, "auto"
PdoCobIds ==
    {<<>>, <<<<YStr("cob_id"), YInt(\h233)>>>>,
     <<<<YStr("cob_id"), YInt(OrBit31(\h233))>>>>,
     <<<<YStr("cob_id"), YStr("auto")>>>>}

\* the values of mapping in the overlay of a PDO that maps index: none, the
\* empty list, one sub-object
PdoMappings(index) ==
    {<<>>, <<<<YStr("mapping"), YList(<<>>)>>>>,
     <<<<YStr("mapping"), YList(<<MapEntry(index, 1)>>)>>>>}

\* the other keys in the overlay of a PDO: none, communication parameters,
\* enabled as the boolean false and as the string "false"
PdoParameters ==
    {<<>>,
     <<<<YStr("transmission"), YInt(1)>>, <<YStr("inhibit_time"), YInt(5)>>,
       <<YStr("event_timer"), YInt(7)>>, <<YStr("sync_start"), YInt(2)>>>>,
     <<<<YStr("enabled"), YBool(FALSE)>>>>,
     <<<<YStr("enabled"), YStr("false")>>>>,
     <<<<YStr("transmission"), YInt(1)>>, <<YStr("enabled"), YBool(FALSE)>>>>}

\* the overlays of one PDO: RPDO 1, RPDO 5 or TPDO 1
PdoEntries ==
    {<<>>} \cup
    {<<<<YStr(p[1]), YMap(<<<<YInt(p[2]), YMap(cob \o par \o map)>>>>)>>>> :
        p \in {<<"rpdo", 1>>, <<"rpdo", 5>>, <<"tpdo", 1>>},
        cob \in PdoCobIds, par \in PdoParameters,
        map \in PdoMappings(\h6200) \cup PdoMappings(\h6000)}

\* a call of from_config for node 2 with the entries in its overlay
OverlayRun(dcf, entries) ==
    [fn |-> "from_config", name |-> "slave_2",
     cfg |-> YMap(<<<<YStr("dcf"), YStr("slave.dcf")>>, <<YStr("node_id"), YInt(2)>>>>
                  \o entries),
     options |-> Options, dcf |-> dcf, lint_ok |-> TRUE, no_strict |-> FALSE]

PdoRuns == {OverlayRun(dcf, e) : dcf \in {SlaveStore(255), MainStore}, e \in PdoEntries}

\* the DCF of a slave whose objects 0x1012, 0x1017, 0x100C and 0x100D hold v[1],
\* v[2], v[3] and v[4]
ScalarStore(v) ==
    DeviceStore([VendorNumber |-> Absent], [NodeID |-> Absent],
                <<Dec(1), Absent, Absent, Absent>>,
                <<\h100C, \h100D, \h1012, \h1017>>,
                (ObjName(\h100C) :> RecordSection(1)) @@ Sub(\h100C, 0, \h0006, v[3])
                @@ (ObjName(\h100D) :> RecordSection(1)) @@ Sub(\h100D, 0, \h0005, v[4])
                @@ (ObjName(\h1012) :> RecordSection(1)) @@ Sub(\h1012, 0, \h0007, v[1])
                @@ (ObjName(\h1017) :> RecordSection(1)) @@ Sub(\h1017, 0, \h0006, v[2]))

\* the keys of the overlay that configure these objects
ScalarKeys == <<"time_cob_id", "heartbeat_producer", "guard_time", "life_time_factor">>
ScalarIndex == <<\h1012, \h1017, \h100C, \h100D>>

\* the runs of the scalar objects: a DCF that holds 0x100 or 0x80 in 0x1012 and 0
\* or 100 in the others, an overlay that gives one of the keys one of these values
ScalarRuns ==
    {OverlayRun(ScalarStore(<<t, h, g, l>>), <<<<YStr(ScalarKeys[k]), YInt(n)>>>>) :
        t \in {Hex(\h100), Hex(\h80)}, h \in {Dec(0), Dec(100)},
        g \in {Dec(0), Dec(100)}, l \in {Dec(0), Dec(100)},
        k \in 1 .. 4, n \in {0, 100, \h100, \h80}}

\* the DCF of a slave with RPDO 1 enabled, mapping 0x6200/1, the event deadline
\* of 0x1400/5 being 0
DeadlineStore ==
    DeviceStore([VendorNumber |-> Absent], [NodeID |-> Absent],
                <<Dec(1), Absent, Absent, Absent>>,
                <<\h1400, \h1600, \h6200>>,
                (ObjName(\h1400) :> RecordSection(4))
                @@ Sub(\h1400, 0, \h0005, Dec(5))
                @@ Sub(\h1400, 1, \h0007, NodeIdPlus(Hex(\h200)))
                @@ Sub(\h1400, 2, \h0005, Dec(255))
                @@ Sub(\h1400, 5, \h0006, Dec(0))
                @@ (ObjName(\h1600) :> RecordSection(2))
                @@ Sub(\h1600, 0, \h0005, Dec(1))
                @@ Sub(\h1600, 1, \h0007, Hex((\h6200 * 65536) + \h0108))
                @@ (ObjName(\h6200) :> RecordSection(2))
                @@ Sub(\h6200, 0, \h0005, Dec(1)) @@ Sub(\h6200, 1, \h0005, Dec(0)))

\* the runs of the event deadline: an overlay of RPDO 1 with or without
\* event_timer, ahead of or behind event_deadline
DeadlineRuns ==
    {OverlayRun(DeadlineStore,
                <<<<YStr("rpdo"), YMap(<<<<YInt(1), YMap(e)>>>>)>>>>) :
        e \in {t \o d : t \in {<<>>, <<<<YStr("event_timer"), YInt(20)>>>>,
                                <<<<YStr("event_timer"), YInt(0)>>>>},
                         d \in {<<<<YStr("event_deadline"), YInt(0)>>>>,
                                <<<<YStr("event_deadline"), YInt(30)>>>>}}
               \cup {<<<<YStr("event_deadline"), YInt(30)>>,
                       <<YStr("event_timer"), YInt(30)>>>>}}

\* the values that an overlay gives the boot fields
BootEntries ==
    {<<YStr("boot"), YBool(FALSE)>>, <<YStr("boot"), YStr("false")>>,
     <<YStr("mandatory"), YBool(TRUE)>>,
     <<YStr("reset_communication"), YBool(FALSE)>>,
     <<YStr("software_file"), YStr("app.bin")>>,
     <<YStr("software_version"), YInt(3)>>,
     <<YStr("restore_configuration"), YInt(1)>>,
     <<YStr("configuration_file"), YStr("cfg.bin")>>}

\* the runs of the boot fields: an overlay that gives one or two of them, alone
\* or next to an entry that makes from_config append a record, with the
\* option dcf_path of main empty or a directory
BootRuns ==
    {[OverlayRun(SlaveStore(255), more \o e) EXCEPT !.options.dcf_path = path] :
        e \in {<<b>> : b \in BootEntries}
                 \cup {<<b, <<YStr("configuration_file"), YStr("cfg.bin")>>>> :
                          b \in BootEntries \ {<<YStr("configuration_file"),
                                                  YStr("cfg.bin")>>}},
        more \in {<<>>, <<<<YStr("heartbeat_producer"), YInt(500)>>>>},
        path \in {<<>>, <<"out">>}}

OverlayRuns == PdoRuns \cup ScalarRuns \cup DeadlineRuns \cup BootRuns

InitOverlay ==
    /\ call \in OverlayRuns
    /\ ret = NoRet
    /\ warnings = <<>>

SpecOverlay == InitOverlay /\ [][NextSlave]_vars

(***************************************************************************)
(* C13: the PDOs that from_config leaves in slave.rpdo and slave.tpdo.     *)
(***************************************************************************)
\* the Slave that from_dcf loads for the call
Loaded == Slave_from_dcf(call.dcf, Env(2), TRUE, FALSE)[1].value

\* the overlay of PDO i of cfg[kind], <<>> when the overlay does not mention it
Mention(kind, i) ==
    IF YHas(call.cfg, kind)
       /\ \E j \in 1 .. Len(YGet(call.cfg, kind).items) :
              YGet(call.cfg, kind).items[j][1] = YInt(i)
    THEN <<YGet(call.cfg, kind).items[
               CHOOSE j \in 1 .. Len(YGet(call.cfg, kind).items) :
                   YGet(call.cfg, kind).items[j][1] = YInt(i)][2]>>
    ELSE <<>>

\* a PDO that stays
Stays(pdo) == ~HasBit31(pdo.cob_id) /\ DOMAIN pdo.mapping # {}

\* C13: when from_config returns, every PDO left in slave.rpdo and slave.tpdo
\* has bit 31 of its COB-ID clear and maps something; a PDO of the DCF that the
\* overlay does not mention stays exactly when it is so in the DCF, and a PDO
\* that the overlay disables or gives the empty mapping is gone
C13_Remaining ==
    (call.fn = "from_config" /\ ret # NoRet /\ ret[1].exc = "") =>
        \A kind \in {"rpdo", "tpdo"} :
            /\ DOMAIN ret[1].value.slave[kind] \subseteq DOMAIN Loaded[kind]
            /\ \A i \in DOMAIN ret[1].value.slave[kind] :
                   Stays(ret[1].value.slave[kind][i])
            /\ \A i \in DOMAIN Loaded[kind] :
                   IF Mention(kind, i) = <<>>
                   THEN /\ i \in DOMAIN ret[1].value.slave[kind] <=> Stays(Loaded[kind][i])
                        /\ i \in DOMAIN ret[1].value.slave[kind] =>
                               ret[1].value.slave[kind][i] = Loaded[kind][i]
                   ELSE /\ (YHas(Mention(kind, i)[1], "cob_id")
                            /\ YGet(Mention(kind, i)[1], "cob_id").kind = "int"
                            /\ HasBit31(YGet(Mention(kind, i)[1], "cob_id").int))
                           => i \notin DOMAIN ret[1].value.slave[kind]
                        /\ (YHas(Mention(kind, i)[1], "mapping")
                            /\ YGet(Mention(kind, i)[1], "mapping").items = <<>>)
                           => i \notin DOMAIN ret[1].value.slave[kind]

\* from_config returned after it removed a disabled PDO that the overlay does
\* not mention, a PDO that the overlay disabled, and kept an enabled one
C13_Witness ==
    /\ call.fn = "from_config"
    /\ ret # NoRet
    /\ ret[1].exc = ""
    /\ call.dcf = MainStore
    /\ DOMAIN Loaded.rpdo = {1, 5, 6}
    /\ Mention("rpdo", 5) # <<>>
    /\ YHas(Mention("rpdo", 5)[1], "cob_id")
    /\ HasBit31(YGet(Mention("rpdo", 5)[1], "cob_id").int)
    /\ DOMAIN ret[1].value.slave.rpdo = {1}
    /\ DOMAIN ret[1].value.slave.tpdo = {1}

\* the overlay enabled a PDO that the DCF disables, and the PDO stayed
C13_WitnessEnabled ==
    /\ call.fn = "from_config"
    /\ ret # NoRet
    /\ ret[1].exc = ""
    /\ call.dcf = MainStore
    /\ 5 \in DOMAIN ret[1].value.slave.rpdo
    /\ ret[1].value.slave.rpdo[5].cob_id = \h233

\* a PDO that is enabled but maps nothing in the DCF is gone
C13_WitnessEmpty ==
    /\ call.fn = "from_config"
    /\ ret # NoRet
    /\ ret[1].exc = ""
    /\ call.dcf = SlaveStore(255)
    /\ Mention("rpdo", 1) = <<>>
    /\ ~HasBit31(Loaded.rpdo[1].cob_id)
    /\ 1 \notin DOMAIN ret[1].value.slave.rpdo

(***************************************************************************)
(* C14: the entry of object 0x1016 that Master.from_config writes.         *)
(***************************************************************************)
\* the entries of object 0x1016 of the slave j of main, their node-ID and
\* heartbeat time fields
ConsumerSubs(j) == DOMAIN call.slaves[j].slave.obj[\h1016].sub \ {0}
ConsumerNode(j, s) == (Item(call.slaves[j].slave.obj, \h1016, s).value \div 65536) % 256
ConsumerTime(j, s) == Item(call.slaves[j].slave.obj, \h1016, s).value % 65536

\* the entries that name the node-ID n, and the unused ones
ConsumerOf(j, n) == {s \in ConsumerSubs(j) : ConsumerNode(j, s) = n}
ConsumerUnused(j) ==
    {s \in ConsumerSubs(j) :
        ConsumerTime(j, s) = 0 \/ ConsumerNode(j, s) = 0 \/ ConsumerNode(j, s) > 127}

\* the step of Master.from_config, returning a master that produces a heartbeat
MasterProduces ==
    /\ call.fn = "main"
    /\ ret = NoRet
    /\ call.k > Len(call.cfg.items)
    /\ ret' # NoRet
    /\ ret'[1].exc = ""
    /\ ret'[1].value.heartbeat_producer * ret'[1].value.heartbeat_multiplier > 0

\* the step side of C14
C14_Step ==
    MasterProduces =>
        \A j \in 1 .. Len(call.slaves) :
            (call.slaves[j].slave.heartbeat_consumer
             /\ \h1016 \in DOMAIN call.slaves[j].slave.obj) =>
                IF ConsumerOf(j, ret'[1].value.node_id) # {}
                THEN /\ Len(call'.slaves[j].sdo) = Len(call.slaves[j].sdo) + 1
                     /\ call'.slaves[j].sdo
                            = <<call'.slaves[j].sdo[1]>> \o call.slaves[j].sdo
                     /\ concise_decode(\h0007, call'.slaves[j].sdo[1])[1] = \h1016
                     /\ concise_decode(\h0007, call'.slaves[j].sdo[1])[2]
                            = Min(ConsumerOf(j, ret'[1].value.node_id))
                ELSE IF ConsumerUnused(j) # {}
                THEN /\ Len(call'.slaves[j].sdo) = Len(call.slaves[j].sdo) + 1
                     /\ call'.slaves[j].sdo
                            = <<call'.slaves[j].sdo[1]>> \o call.slaves[j].sdo
                     /\ concise_decode(\h0007, call'.slaves[j].sdo[1])[1] = \h1016
                     /\ concise_decode(\h0007, call'.slaves[j].sdo[1])[2]
                            = Min(ConsumerUnused(j))
                ELSE /\ call'.slaves[j].sdo = call.slaves[j].sdo
                     /\ \E w \in 1 .. Len(warnings') :
                            warnings'[w] = <<"no unused entry", call.slaves[j].name>>

\* C14: when the master produces a heartbeat and a slave with object 0x1016
\* consumes it, Master.from_config puts at most one record in front of the
\* slave's list: a write to the lowest entry of 0x1016 whose node-ID field is the
\* node-ID of the master, even below an unused entry; without such an entry, a
\* write to the lowest unused entry (heartbeat time 0, node-ID 0 or node-ID above
\* 127); without either no record, and a warning
C14_ConsumerSlot == [][C14_Step]_vars

\* the master wrote entry 2, which named it, while entry 1 was unused
C14_Witness ==
    /\ call.fn = "main"
    /\ ret # NoRet
    /\ ret[1].exc = ""
    /\ Len(call.slaves) = 1
    /\ call.slaves[1].slave.heartbeat_consumer
    /\ \h1016 \in DOMAIN call.slaves[1].slave.obj
    /\ 1 \in ConsumerUnused(1)
    /\ ConsumerOf(1, 1) = {2}
    /\ Len(call.slaves[1].sdo) = 1
    /\ concise_decode(\h0007, call.slaves[1].sdo[1])
           = <<\h1016, 2, 4, \h10000 + 150>>

\* every entry was taken by another node: the master wrote nothing and warned
C14_WitnessFull ==
    /\ call.fn = "main"
    /\ ret # NoRet
    /\ ret[1].exc = ""
    /\ Len(call.slaves) = 1
    /\ call.slaves[1].slave.heartbeat_consumer
    /\ ret[1].value.heartbeat_producer > 0
    /\ \h1016 \in DOMAIN call.slaves[1].slave.obj
    /\ ConsumerUnused(1) = {}
    /\ ConsumerOf(1, 1) = {}
    /\ call.slaves[1].sdo = <<>>
    /\ warnings # <<>>

(***************************************************************************)
(* C15: the list master.sdo that Master.from_config builds.                *)
(***************************************************************************)
\* the record index/sub_index <- value as UNSIGNED32
U32Record(index, sub_index, value) ==
    DataType_concise_value(\h0007, index, sub_index, value).value

\* the records of the slave j
RECURSIVE VersionRecords(_)
VersionRecords(j) ==
    IF j > Len(call.slaves) THEN <<>>
    ELSE (IF call.slaves[j].slave.software_version # 0
          THEN <<U32Record(\h1F55, call.slaves[j].slave.node_id,
                           call.slaves[j].slave.software_version)>>
          ELSE <<>>)
         \o (IF call.slaves[j].slave.revision_number # 0
                /\ 3 \in DOMAIN call.slaves[j].slave.obj[\h1018].sub
             THEN <<U32Record(\h1F87, call.slaves[j].slave.node_id,
                              call.slaves[j].slave.revision_number)>>
             ELSE <<>>)
         \o (IF call.slaves[j].slave.serial_number # 0
                /\ 4 \in DOMAIN call.slaves[j].slave.obj[\h1018].sub
             THEN <<U32Record(\h1F88, call.slaves[j].slave.node_id,
                              call.slaves[j].slave.serial_number)>>
             ELSE <<>>)
         \o VersionRecords(j + 1)

\* the place of the key name in the YAML file
YamlPlace(name) ==
    CHOOSE p \in 1 .. Len(call.cfg.items) : call.cfg.items[p][1] = YStr(name)

\* C15: the list master.sdo of the Master that from_config returns is the
\* record 0x1018/4 <- serial number when the master's serial number is not 0,
\* then for each slave in the order of the YAML keys the records 0x1F55/node_id
\* <- software_version when it is not 0, 0x1F87/node_id <- revision_number when
\* it is not 0 and the slave has 0x1018/3, 0x1F88/node_id <- serial_number
\* when it is not 0 and the slave has 0x1018/4, each as UNSIGNED32, and
\* nothing else
C15_MasterSdo ==
    (call.fn = "main" /\ ret # NoRet /\ ret[1].exc = ""
     /\ call.k > Len(call.cfg.items)) =>
        /\ ret[1].value.sdo
               = (IF ret[1].value.serial_number # 0
                  THEN <<U32Record(\h1018, 4, ret[1].value.serial_number)>> ELSE <<>>)
                 \o VersionRecords(1)
        /\ \A j, l \in 1 .. Len(call.slaves) :
               j < l => YamlPlace(call.slaves[j].name) < YamlPlace(call.slaves[l].name)

\* a master with a serial number, ahead of it in the file a slave with all three
\* records, behind it a slave without revision number
C15_Witness ==
    /\ call.fn = "main"
    /\ ret # NoRet
    /\ ret[1].exc = ""
    /\ Len(call.slaves) = 2
    /\ Len(ret[1].value.sdo) = 6
    /\ concise_decode(\h0007, ret[1].value.sdo[1]) = <<\h1018, 4, 4, 8>>
    /\ concise_decode(\h0007, ret[1].value.sdo[2]) = <<\h1F55, 3, 4, 3>>
    /\ concise_decode(\h0007, ret[1].value.sdo[3]) = <<\h1F87, 3, 4, 5>>
    /\ concise_decode(\h0007, ret[1].value.sdo[4]) = <<\h1F88, 3, 4, 6>>
    /\ concise_decode(\h0007, ret[1].value.sdo[5]) = <<\h1F55, 2, 4, 4>>
    /\ concise_decode(\h0007, ret[1].value.sdo[6]) = <<\h1F88, 2, 4, 9>>

\* a slave with a revision number from the overlay and no sub-object 0x1018/3:
\* no record 0x1F87
C15_WitnessNoSub ==
    /\ call.fn = "main"
    /\ ret # NoRet
    /\ ret[1].exc = ""
    /\ Len(call.slaves) = 2
    /\ call.slaves[1].slave.revision_number = 5
    /\ 3 \notin DOMAIN call.slaves[1].slave.obj[\h1018].sub
    /\ \A r \in 1 .. Len(ret[1].value.sdo) :
           concise_decode(\h0007, ret[1].value.sdo[r])[1] # \h1F87

(***************************************************************************)
(* C16: the records of the objects 0x1012, 0x1017, 0x100C and 0x100D.      *)
(***************************************************************************)
\* the records of the returned list slave.sdo that write index/0
WritesTo(index) ==
    {r \in 1 .. Len(ret[1].value.sdo) :
        /\ FromLittleEndian(SubSeq(ret[1].value.sdo[r], 1, 2), FALSE) = index
        /\ FromLittleEndian(SubSeq(ret[1].value.sdo[r], 3, 3), FALSE) = 0}

\* the rule of C16 for the key ScalarKeys[k]: one record when the overlay
\* differs from what the DCF holds, none when it is equal
OneIfDiffers(k) ==
    (call.fn = "from_config" /\ ret # NoRet /\ ret[1].exc = ""
     /\ YHas(call.cfg, ScalarKeys[k]) /\ ScalarIndex[k] \in DOMAIN Loaded.obj) =>
        Cardinality(WritesTo(ScalarIndex[k]))
            = IF YGet(call.cfg, ScalarKeys[k]).int
                     # Item(Loaded.obj, ScalarIndex[k], 0).value
              THEN 1 ELSE 0

\* C16: for time_cob_id (0x1012), heartbeat_producer (0x1017), guard_time
\* (0x100C) and life_time_factor (0x100D), when the overlay gives a value and the
\* slave has the object, from_config emits one write to sub-index 0 of the object
\* if the value differs from the one the DCF holds, and none if it is equal
C16_Original == \A k \in 1 .. 4 : OneIfDiffers(k)

\* the part of C16 that the code keeps: the three objects other than 0x1012
C16_ThreeObjects == \A k \in 2 .. 4 : OneIfDiffers(k)

\* what the code does for 0x1012: the overlay is compared with 0x100, the value
\* of slave.time_cob_id that __init__ set
C16_TimeAgainstDefault ==
    (call.fn = "from_config" /\ ret # NoRet /\ ret[1].exc = ""
     /\ YHas(call.cfg, "time_cob_id") /\ \h1012 \in DOMAIN Loaded.obj) =>
        Cardinality(WritesTo(\h1012))
            = IF YGet(call.cfg, "time_cob_id").int # \h100 THEN 1 ELSE 0

\* the DCF holds 0x80 in 0x1012, the overlay asks for 0x100, from_config returns
\* without a record
C16_Scenario ==
    /\ call.fn = "from_config"
    /\ ret # NoRet
    /\ ret[1].exc = ""
    /\ YHas(call.cfg, "time_cob_id")
    /\ YGet(call.cfg, "time_cob_id").int = \h100
    /\ Item(Loaded.obj, \h1012, 0).value = \h80
    /\ ret[1].value.sdo = <<>>

\* the DCF holds 0x80 in 0x1012, the overlay asks for 0x80, from_config emits
\* the write
C16_ScenarioEqual ==
    /\ call.fn = "from_config"
    /\ ret # NoRet
    /\ ret[1].exc = ""
    /\ YHas(call.cfg, "time_cob_id")
    /\ YGet(call.cfg, "time_cob_id").int = \h80
    /\ Item(Loaded.obj, \h1012, 0).value = \h80
    /\ Len(ret[1].value.sdo) = 1

(***************************************************************************)
(* C17: the record of the event deadline of an RPDO.                       *)
(***************************************************************************)
\* the call gives RPDO 1, which the DCF enables, an event_deadline that differs
\* from the one of the DCF, and leaves its COB-ID alone
DeadlineGiven ==
    /\ call.fn = "from_config"
    /\ 1 \in DOMAIN Loaded.rpdo
    /\ ~HasBit31(Loaded.rpdo[1].cob_id)
    /\ Mention("rpdo", 1) # <<>>
    /\ ~YHas(Mention("rpdo", 1)[1], "cob_id")
    /\ YHas(Mention("rpdo", 1)[1], "event_deadline")
    /\ YGet(Mention("rpdo", 1)[1], "event_deadline").int # Loaded.rpdo[1].event_deadline

\* the values that the returned list slave.sdo writes to 0x1400/5
DeadlineWritten ==
    {FromLittleEndian(SubSeq(ret[1].value.sdo[r], 8, 9), FALSE) :
        r \in {q \in 1 .. Len(ret[1].value.sdo) :
                  /\ FromLittleEndian(SubSeq(ret[1].value.sdo[q], 1, 2), FALSE) = \h1400
                  /\ FromLittleEndian(SubSeq(ret[1].value.sdo[q], 3, 3), FALSE) = 5
                  /\ FromLittleEndian(SubSeq(ret[1].value.sdo[q], 4, 7), FALSE) = 2}}

\* C17: for an RPDO that is not disabled and whose overlay gives an
\* event_deadline other than the current one, the record written to sub-index 5
\* of the communication object carries the event_deadline of the overlay,
\* whether or not the overlay gives event_timer
C17_Original ==
    (DeadlineGiven /\ ret # NoRet) =>
        /\ ret[1].exc = ""
        /\ DeadlineWritten = {YGet(Mention("rpdo", 1)[1], "event_deadline").int}

\* what the code does: the record carries the event_timer of the overlay, and
\* from_config raises UnboundLocalError when the overlay gives none
C17_CarriesEventTimer ==
    (DeadlineGiven /\ ret # NoRet) =>
        IF YHas(Mention("rpdo", 1)[1], "event_timer")
        THEN /\ ret[1].exc = ""
             /\ DeadlineWritten = {YGet(Mention("rpdo", 1)[1], "event_timer").int}
             /\ ret[1].value.slave.rpdo[1].event_deadline
                    = YGet(Mention("rpdo", 1)[1], "event_deadline").int
        ELSE ret[1].exc = "UnboundLocalError"

\* the overlay {event_timer: 20, event_deadline: 30}: the record 0x1400/5 <- 20
C17_Scenario ==
    /\ DeadlineGiven
    /\ ret # NoRet
    /\ ret[1].exc = ""
    /\ YGet(Mention("rpdo", 1)[1], "event_deadline").int = 30
    /\ DeadlineWritten = {20}

\* the overlay {event_deadline: 30}: from_config raises
C17_ScenarioUnbound ==
    /\ DeadlineGiven
    /\ ~YHas(Mention("rpdo", 1)[1], "event_timer")
    /\ ret = <<Raise("UnboundLocalError")>>

(***************************************************************************)
(* dcf/lint.py: lint and the functions it hands the sections to.  The      *)
(* store is the sequence of its sections in file order, behind the section *)
(* DEFAULT that a ConfigParser always yields first: pairs <<name, section>>*)
(* with the name as the sequence of its characters, so that the pattern    *)
(* __p_object is matched character by character.  The keys of a section    *)
(* are spelled as the tables of lint.py spell them.                        *)
(***************************************************************************)
\* str.lower() on a character and on a name
LowerTable ==
    ("A" :> "a") @@ ("B" :> "b") @@ ("C" :> "c") @@ ("D" :> "d") @@ ("E" :> "e") @@ ("F" :> "f")
    @@ ("G" :> "g") @@ ("H" :> "h") @@ ("I" :> "i") @@ ("J" :> "j") @@ ("K" :> "k") @@ ("L" :> "l") @@ ("M" :> "m")
    @@ ("N" :> "n") @@ ("O" :> "o") @@ ("P" :> "p") @@ ("Q" :> "q") @@ ("R" :> "r") @@ ("S" :> "s")
    @@ ("T" :> "t") @@ ("U" :> "u") @@ ("V" :> "v") @@ ("W" :> "w") @@ ("X" :> "x") @@ ("Y" :> "y") @@ ("Z" :> "z")
LowerChar(c) == IF c \in DOMAIN LowerTable THEN LowerTable[c] ELSE c
LowerName(name) == [j \in 1 .. Len(name) |-> LowerChar(name[j])]

\* the digits of base 16, and "{:04X}".format(n), "{:X}".format(n) for n < 256
HexChar == <<"0", "1", "2", "3", "4", "5", "6", "7", "8", "9", "A", "B", "C", "D", "E", "F">>
Hex4(n) ==
    <<HexChar[((n \div 4096) % 16) + 1], HexChar[((n \div 256) % 16) + 1],
      HexChar[((n \div 16) % 16) + 1], HexChar[(n % 16) + 1]>>
HexStr(n) ==
    IF n < 16 THEN <<HexChar[n + 1]>> ELSE <<HexChar[(n \div 16) + 1], HexChar[(n % 16) + 1]>>

\* int(text, 16) of a name part without sign or prefix
RECURSIVE python_int_16(_)
python_int_16(text) ==
    IF text = <<>> THEN Ok(0)
    ELSE IF \A d \in 1 .. 16 : LowerChar(HexChar[d]) # LowerChar(text[Len(text)])
    THEN Raise("ValueError")
    ELSE CHOOSE out \in {
             IF front.exc # "" THEN front
             ELSE Ok((front.value * 16)
                     + ((CHOOSE d \in 1 .. 16 :
                            LowerChar(HexChar[d]) = LowerChar(text[Len(text)])) - 1))
           : front \in {python_int_16(SubSeq(text, 1, Len(text) - 1))}} : TRUE

\* the characters of the classes [0-9A-X] and [0-9A-F] under re.IGNORECASE
ClassAX ==
    {"0", "1", "2", "3", "4", "5", "6", "7", "8", "9", "a", "b", "c", "d", "e", "f", "g",
     "h", "i", "j", "k", "l", "m", "n", "o", "p", "q", "r", "s", "t", "u", "v", "w", "x"}
ClassAF ==
    {"0", "1", "2", "3", "4", "5", "6", "7", "8", "9", "a", "b", "c", "d", "e", "f"}

\* __p_object.match(section): <<>> when the name does not match, otherwise the
\* groups: group 1, whether group 2 took part, group 3 (<<>> for None)
p_object_match(name) ==
    IF Len(name) < 4 \/ \E j \in 1 .. 4 : LowerChar(name[j]) \notin ClassAX THEN <<>>
    ELSE IF Len(name) = 4 THEN <<[g1 |-> SubSeq(name, 1, 4), g2 |-> FALSE, g3 |-> <<>>]>>
    ELSE IF LowerName(SubSeq(name, 5, Len(name))) \in {<<"n", "a", "m", "e">>, <<"v", "a", "l", "u", "e">>}
    THEN <<[g1 |-> SubSeq(name, 1, 4), g2 |-> TRUE, g3 |-> <<>>]>>
    ELSE IF Len(name) > 7 /\ LowerName(SubSeq(name, 5, 7)) = <<"s", "u", "b">>
            /\ \A j \in 8 .. Len(name) : LowerChar(name[j]) \in ClassAF
    THEN <<[g1 |-> SubSeq(name, 1, 4), g2 |-> TRUE, g3 |-> SubSeq(name, 8, Len(name))]>>
    ELSE <<>>

\* the names of the sections that lint knows by name
N_DEFAULT == <<"D", "E", "F", "A", "U", "L", "T">>
N_FileInfo == <<"F", "i", "l", "e", "I", "n", "f", "o">>
N_DeviceComissioning == <<"D", "e", "v", "i", "c", "e", "C", "o", "m", "i", "s", "s", "i", "o", "n", "i", "n", "g">>
N_DeviceInfo == <<"D", "e", "v", "i", "c", "e", "I", "n", "f", "o">>
N_DummyUsage == <<"D", "u", "m", "m", "y", "U", "s", "a", "g", "e">>
N_Comments == <<"C", "o", "m", "m", "e", "n", "t", "s">>
N_MandatoryObjects == <<"M", "a", "n", "d", "a", "t", "o", "r", "y", "O", "b", "j", "e", "c", "t", "s">>
N_OptionalObjects == <<"O", "p", "t", "i", "o", "n", "a", "l", "O", "b", "j", "e", "c", "t", "s">>
N_ManufacturerObjects == <<"M", "a", "n", "u", "f", "a", "c", "t", "u", "r", "e", "r", "O", "b", "j", "e", "c", "t", "s">>

\* __sections: the entries of [FileInfo], [DeviceComissioning] and [DeviceInfo]
lint_sections(name) ==
    CASE LowerName(name) = LowerName(N_FileInfo) ->
    {
     "FileName", "FileVersion", "FileRevision", "EDSVersion", "Description",
     "CreationTime", "CreationDate", "CreatedBy", "ModificationTime",
     "ModificationDate", "ModifiedBy", "LastEDS"}
      [] LowerName(name) = LowerName(N_DeviceComissioning) ->
    {
     "NodeID", "NodeName", "NodeRefd", "Baudrate", "NetNumber", "NetworkName",
     "NetRefd", "CANopenManager", "LSS_SerialNumber"}
      [] LowerName(name) = LowerName(N_DeviceInfo) ->
    {
     "VendorName", "VendorNumber", "ProductName", "ProductNumber",
     "RevisionNumber", "OrderCode", "BaudRate_10", "BaudRate_20", "BaudRate_50",
     "BaudRate_125", "BaudRate_250", "BaudRate_500", "BaudRate_800",
     "BaudRate_1000", "SimpleBootUpMaster", "SimpleBootUpSlave", "Granularity",
     "DynamicChannelsSupported", "GroupMessaging", "NrOfRxPDO", "NrOfTxPDO",
     "LSS_Supported", "CompactPDO"}

\* the keys of __object_entries
lint_object_entries ==
    {"SubNumber", "ParameterName", "ObjectType", "DataType", "AccessType", "LowLimit",
     "HighLimit", "DefaultValue", "PDOMapping", "ObjFlags", "CompactSubObj",
     "ParameterValue", "UploadFile", "DownloadFile", "Denotation", "ParamRefd"}

\* `name in cfg` and cfg[name]: the sections are kept in an IniDict
CfgHas(cfg, name) == \E j \in 1 .. Len(cfg) : LowerName(cfg[j][1]) = LowerName(name)
CfgGet(cfg, name) ==
    cfg[CHOOSE j \in 1 .. Len(cfg) : LowerName(cfg[j][1]) = LowerName(name)][2]

\* the elements of a set, one after the other
RECURSIVE SeqOf(_)
SeqOf(S) ==
    IF S = {} THEN <<>>
    ELSE CHOOSE out \in {<<x>> \o SeqOf(S \ {x}) : x \in {CHOOSE y \in S : TRUE}} : TRUE

\* the sequences of seqs, one after the other
RECURSIVE Join(_)
Join(seqs) == IF seqs = <<>> THEN <<>> ELSE Head(seqs) \o Join(Tail(seqs))

\* the running state of a lint function: ok, the warnings, the exception, and
\* the locals that later statements read
LintState == [exc |-> "", ok |-> TRUE, warn |-> <<>>, object_type |-> 7,
              sub_number |-> 0, compact_sub_obj |-> 0]

\* warnings.warn(w); ok = False when cond holds
Warn(st, cond, w) ==
    IF st.exc = "" /\ cond THEN [st EXCEPT !.ok = FALSE, !.warn = Append(@, w)] ELSE st

\* the result r of a lint function called inside `if not f(...): ok = False`
Called(st, r) ==
    IF st.exc # "" THEN st
    ELSE [st EXCEPT !.exc = r.exc, !.ok = @ /\ r.value, !.warn = @ \o r.warn]

\* the outcome of a lint function that ran to the state st
LintResult(st) == [exc |-> st.exc, value |-> st.exc = "" /\ st.ok, warn |-> st.warn]

\* the loop over the entries of an object or sub-object section, and the test
\* for ParameterName
lint_entries(st, section, name) ==
    Warn([st EXCEPT
            !.ok = @ /\ \A entry \in DOMAIN section :
                       /\ entry \in lint_object_entries
                       /\ entry = "AccessType" =>
                              Lower(section[entry].text)
                                  \in {"ro", "wo", "rw", "rwr", "rww", "const"},
            !.warn = @ \o SeqOf({<<"invalid entry", name, entry>> :
                                    entry \in DOMAIN section \ lint_object_entries})
                       \o (IF "AccessType" \in DOMAIN section
                              /\ Lower(section["AccessType"].text)
                                     \notin {"ro", "wo", "rw", "rwr", "rww", "const"}
                           THEN <<<<"invalid value", name, "AccessType">>>> ELSE <<>>)],
         "ParameterName" \notin DOMAIN section, <<"ParameterName not specified", name>>)

\* `local = int(section[key], 0)` under `if key in section and section[key]`
lint_int(st, section, key, local) ==
    IF st.exc # "" \/ ~Has(section, key) THEN st
    ELSE IF python_int(section[key], 0).exc # ""
    THEN [st EXCEPT !.exc = python_int(section[key], 0).exc]
    ELSE [st EXCEPT ![local] = python_int(section[key], 0).value]

\* the sub-indices below 255 that have a section of their own
lint_sub_sections(cfg, index) ==
    {sub_index \in 0 .. 254 : CfgHas(cfg, Hex4(index) \o <<"s", "u", "b">> \o HexStr(sub_index))}

\* the branch `elif sub_number != 0:` of __parse_object
lint_sub_number(st, cfg, name, index) ==
    CHOOSE out \in {
        IF st1.exc # "" THEN st1
        ELSE IF 0 \in lint_sub_sections(cfg, index)
                /\ Has(CfgGet(cfg, Hex4(index) \o <<"s", "u", "b">> \o HexStr(0)), "DataType")
                /\ python_int(CfgGet(cfg, Hex4(index) \o <<"s", "u", "b">> \o HexStr(0))["DataType"],
                              0).exc # ""
        THEN [st1 EXCEPT !.exc = "ValueError"]
        ELSE Warn(Warn(Warn(st1,
                            0 \in lint_sub_sections(cfg, index)
                            /\ IntOr(CfgGet(cfg, Hex4(index) \o <<"s", "u", "b">> \o HexStr(0)),
                                     "DataType", 0).value # \h0005,
                            <<"DataType should be UNSIGNED8", name>>),
                       Cardinality(lint_sub_sections(cfg, index)) < st1.sub_number,
                       <<"missing sub-object(s)", index>>),
                  Cardinality(lint_sub_sections(cfg, index)) > st1.sub_number,
                  <<"extra sub-object(s)", index>>)
      : st1 \in {Warn(st, st.object_type \notin {\h08, \h09},
                      <<"ObjectType should be 0x08 or 0x09", name>>)}} : TRUE

\* block k of __parse_object, in the order of the code
lint_parse_object_block(k, st, cfg, name, index) ==
    CASE k = 1 -> lint_entries(st, CfgGet(cfg, name), name)
      [] k = 2 -> lint_int(st, CfgGet(cfg, name), "ObjectType", "object_type")
      [] k = 3 -> Warn(st, st.object_type \in {\h05, \h07}
                           /\ ~Has(CfgGet(cfg, name), "DataType"),
                       <<"DataType not specified", name>>)
      [] k = 4 -> lint_int(st, CfgGet(cfg, name), "SubNumber", "sub_number")
      [] k = 5 -> lint_int(st, CfgGet(cfg, name), "CompactSubObj", "compact_sub_obj")
      [] k = 6 -> IF Has(CfgGet(cfg, name), "AccessType")
                  THEN Warn(st, st.object_type \in {\h06, \h08, \h09}
                                /\ st.compact_sub_obj = 0,
                            <<"AccessType not supported", name>>)
                  ELSE Warn(st, st.object_type # \h02 /\ st.compact_sub_obj # 0,
                            <<"AccessType not specified", name>>)
      [] k = 7 -> IF st.sub_number # 0 /\ st.compact_sub_obj # 0
                  THEN Warn(st, TRUE, <<"SubNumber and CompactSubObj specified", name>>)
                  ELSE IF st.sub_number # 0 THEN lint_sub_number(st, cfg, name, index)
                  ELSE Warn(st, st.compact_sub_obj # 0
                                /\ st.object_type \notin {\h08, \h09},
                            <<"ObjectType should be 0x08 or 0x09", name>>)
      [] k = 8 -> IF st.sub_number = 0
                  THEN Called(st, lint_parse_sub_object_0(CfgGet(cfg, name)))
                  ELSE st

\* the blocks from k on, up to the return or the first exception
RECURSIVE lint_parse_object_blocks(_, _, _, _, _)
lint_parse_object_blocks(k, st, cfg, name, index) ==
    IF k > 8 \/ st.exc # "" THEN st
    ELSE CHOOSE out \in {lint_parse_object_blocks(k + 1, next, cfg, name, index)
                           : next \in {lint_parse_object_block(k, st, cfg, name, index)}}
             : TRUE

\* __parse_object(cfg, section, index)
lint_parse_object(cfg, name, index) ==
    LintResult(lint_parse_object_blocks(1, LintState, cfg, name, index))

\* __parse_sub_object(cfg, section, index, sub_index)
lint_parse_sub_object(cfg, name, index, sub_index) ==
    CHOOSE out \in {
        IF sub_index > 254
        THEN LintResult([Warn(st1, TRUE, <<"invalid sub-index", name>>)
                           EXCEPT !.ok = FALSE])
        ELSE LintResult(
                 Warn(Called(lint_entries(st1, CfgGet(cfg, name), name),
                             lint_parse_sub_object_0(CfgGet(cfg, name))),
                      ~Has(CfgGet(cfg, name), "AccessType"),
                      <<"AccessType not specified", name>>))
      : st1 \in {Warn(LintState, ~CfgHas(cfg, Hex4(index)),
                      <<"object not defined", name>>)}} : TRUE

\* int(entry, 10) on the keys of the sections that number their entries
EntryNumber(entry) ==
    CASE entry = "1" -> Ok(1) [] entry = "2" -> Ok(2) [] entry = "3" -> Ok(3)
      [] OTHER -> Raise("ValueError")

\* the loop of __parse_compact_sub_object and of __parse_objects over the
\* entries: the count entry (NrOfEntries or SupportedObjects) is read in base
\* 10, every other entry has to be a number, in a compact section one that is
\* not above limit
lint_numbered(st, section, name, count, compact, limit) ==
    [st EXCEPT
       !.ok = @ /\ (count \in DOMAIN section => python_int(section[count], 10).exc = "")
                /\ \A entry \in DOMAIN section \ {count} :
                       /\ EntryNumber(entry).exc = ""
                       /\ compact => EntryNumber(entry).value <= limit,
       !.warn = @ \o (IF count \in DOMAIN section
                         /\ python_int(section[count], 10).exc # ""
                      THEN <<<<"invalid value", name, count>>>> ELSE <<>>)
                  \o SeqOf({<<"invalid entry", name, entry>> :
                               entry \in {e \in DOMAIN section \ {count} :
                                             \/ EntryNumber(e).exc # ""
                                             \/ compact /\ EntryNumber(e).value > limit}})]

\* the tail of __parse_compact_sub_object and of __parse_objects about the
\* count: <<the state, whether the function returns False here>>
lint_count(st, section, name, count) ==
    IF count \notin DOMAIN section \/ python_int(section[count], 10).exc # ""
    THEN <<Warn(st, TRUE, <<"entry missing", name, count>>), TRUE>>
    ELSE <<Warn(st, python_int(section[count], 10).value
                        < Cardinality(DOMAIN section) - 1,
                <<"too many entries", name>>), FALSE>>

\* the loop over the entries of a [...Value] section
lint_compact_values(st, cfg, name, index) ==
    IF st.exc # "" \/ ~st.ok
       \/ LowerName(SubSeq(name, 5, Len(name))) # <<"v", "a", "l", "u", "e">>
    THEN st
    ELSE CHOOSE out \in {
             IF \E e \in DOMAIN rs : rs[e].exc # ""
             THEN [st EXCEPT !.exc = rs[CHOOSE e \in DOMAIN rs : rs[e].exc # ""].exc]
             ELSE [st EXCEPT !.ok = \A e \in DOMAIN rs : rs[e].value,
                             !.warn = @ \o Join([j \in 1 .. Cardinality(DOMAIN rs) |->
                                                    rs[SeqOf(DOMAIN rs)[j]].warn])]
           : rs \in {[e \in DOMAIN CfgGet(cfg, name) \ {"NrOfEntries"} |->
                         lint_parse_value(CfgGet(cfg, Hex4(index)), e,
                                          CfgGet(cfg, name)[e])]}} : TRUE

\* __parse_compact_sub_object(cfg, section, index)
lint_parse_compact_sub_object(cfg, name, index) ==
    CHOOSE out \in {
        IF st1.exc # "" THEN LintResult(st1)
        ELSE CHOOSE out1 \in {
                 IF counted[2] THEN LintResult([counted[1] EXCEPT !.ok = FALSE])
                 ELSE LintResult(
                          lint_compact_values(
                              Warn(counted[1],
                                   python_int(CfgGet(cfg, name)["NrOfEntries"], 10).value
                                       > Cardinality(DOMAIN CfgGet(cfg, name)) - 1,
                                   <<"too few entries", name>>),
                              cfg, name, index))
               : counted \in {lint_count(lint_numbered(st1, CfgGet(cfg, name), name,
                                                       "NrOfEntries", TRUE,
                                                       st1.compact_sub_obj),
                                         CfgGet(cfg, name), name, "NrOfEntries")}} : TRUE
      : st1 \in {IF ~CfgHas(cfg, Hex4(index))
                 THEN Warn(LintState, TRUE, <<"object not defined", name>>)
                 ELSE Called(IF Has(CfgGet(cfg, Hex4(index)), "CompactSubObj")
                             THEN lint_int(LintState, CfgGet(cfg, Hex4(index)),
                                           "CompactSubObj", "compact_sub_obj")
                             ELSE Warn(LintState, TRUE,
                                       <<"no compact storage", Hex4(index)>>),
                             lint_parse_data_type(CfgGet(cfg, Hex4(index))))}} : TRUE

\* __parse_dummy_usage(cfg, section): the entries here are Dummy0001 to
\* Dummy0007, any other key is an invalid entry
lint_parse_dummy_usage(section, name) ==
    LintResult(
        [LintState EXCEPT
           !.ok = \A entry \in DOMAIN section :
                      /\ entry \in {"Dummy0001", "Dummy0002", "Dummy0005", "Dummy0007"}
                      /\ section[entry].form = "number" /\ section[entry].base = 10
                      /\ \A d \in 1 .. Len(section[entry].digits) :
                             section[entry].digits[d] < 2,
           !.warn = SeqOf({<<"invalid", name, entry>> :
                              entry \in {e \in DOMAIN section :
                                  ~(/\ e \in {"Dummy0001", "Dummy0002", "Dummy0005",
                                              "Dummy0007"}
                                    /\ section[e].form = "number" /\ section[e].base = 10
                                    /\ \A d \in 1 .. Len(section[e].digits) :
                                           section[e].digits[d] < 2)}})])

\* one pass of the loop `for i in range(1, supported_objects + 1)` of
\* __parse_objects: the warnings of the entry i
lint_objects_entry(cfg, section, name, i) ==
    IF ToString(i) \notin DOMAIN section THEN <<<<"entry missing", name, i>>>>
    ELSE IF python_int(section[ToString(i)], 0).exc # ""
    THEN <<<<"invalid object index", name, i>>>>
    ELSE CHOOSE out \in {
             (IF ~CfgHas(cfg, Hex4(index)) THEN <<<<"object not found", index>>>> ELSE <<>>)
             \o (IF index < \h1000 THEN <<<<"data type objects are not supported", index>>>>
                 ELSE IF LowerName(name) = LowerName(N_MandatoryObjects)
                         /\ index \notin {\h1000, \h1001, \h1018}
                 THEN <<<<"not mandatory", index>>>>
                 ELSE IF LowerName(name) = LowerName(N_OptionalObjects)
                         /\ index >= \h2000 /\ index < \h6000
                 THEN <<<<"manufacturer-specific", index>>>>
                 ELSE IF LowerName(name) = LowerName(N_ManufacturerObjects)
                         /\ (index < \h2000 \/ index >= \h6000)
                 THEN <<<<"not manufacturer-specific", index>>>>
                 ELSE <<>>)
           : index \in {python_int(section[ToString(i)], 0).value}} : TRUE

\* the loop from the entry i on
RECURSIVE lint_objects_entries(_, _, _, _, _)
lint_objects_entries(cfg, section, name, i, supported_objects) ==
    IF i > supported_objects THEN <<>>
    ELSE lint_objects_entry(cfg, section, name, i)
         \o lint_objects_entries(cfg, section, name, i + 1, supported_objects)

\* __parse_objects(cfg, section)
lint_parse_objects(cfg, name) ==
    CHOOSE out \in {
        IF counted[2] THEN LintResult([counted[1] EXCEPT !.ok = FALSE])
        ELSE CHOOSE out1 \in {
                 LintResult([counted[1] EXCEPT !.ok = @ /\ w = <<>>, !.warn = @ \o w])
               : w \in {lint_objects_entries(
                            cfg, CfgGet(cfg, name), name, 1,
                            python_int(CfgGet(cfg, name)["SupportedObjects"], 10).value)}}
                 : TRUE
      : counted \in {lint_count(lint_numbered(LintState, CfgGet(cfg, name), name,
                                              "SupportedObjects", FALSE, 0),
                                CfgGet(cfg, name), name, "SupportedObjects")}} : TRUE

\* the section of lint's loop that the pattern __p_object matched with groups m
lint_object_section(cfg, name, m) ==
    IF python_int_16(m.g1).exc # "" THEN LintRaise(python_int_16(m.g1).exc, <<>>)
    ELSE IF ~m.g2 THEN lint_parse_object(cfg, name, python_int_16(m.g1).value)
    ELSE IF m.g3 # <<>>
    THEN lint_parse_sub_object(cfg, name, python_int_16(m.g1).value,
                               python_int_16(m.g3).value)
    ELSE lint_parse_compact_sub_object(cfg, name, python_int_16(m.g1).value)

\* the body of lint's loop for the section name
lint_section(cfg, name) ==
    IF name = N_DEFAULT THEN LintOk(TRUE, <<>>)
    ELSE IF LowerName(name) \in {LowerName(N_FileInfo), LowerName(N_DeviceComissioning),
                                 LowerName(N_DeviceInfo)}
    THEN LintOk(DOMAIN CfgGet(cfg, name) \subseteq lint_sections(name),
                SeqOf({<<"invalid entry", name, entry>> :
                          entry \in DOMAIN CfgGet(cfg, name) \ lint_sections(name)}))
    ELSE IF LowerName(name) = LowerName(N_DummyUsage)
    THEN lint_parse_dummy_usage(CfgGet(cfg, name), name)
    ELSE IF LowerName(name) = LowerName(N_Comments) THEN LintOk(TRUE, <<>>)
    ELSE IF LowerName(name) \in {LowerName(N_MandatoryObjects),
                                 LowerName(N_OptionalObjects),
                                 LowerName(N_ManufacturerObjects)}
    THEN lint_parse_objects(cfg, name)
    ELSE IF p_object_match(name) # <<>>
    THEN lint_object_section(cfg, name, p_object_match(name)[1])
    ELSE LintOk(FALSE, <<<<"unknown section", name>>>>)

\* lint's loop from the section k on
RECURSIVE lint_loop(_, _, _)
lint_loop(st, cfg, k) ==
    IF st.exc # "" \/ k > Len(cfg) THEN st
    ELSE CHOOSE out \in {lint_loop(next, cfg, k + 1)
                           : next \in {Called(st, lint_section(cfg, cfg[k][1]))}} : TRUE

\* lint(cfg)
lint(cfg) == LintResult(lint_loop(LintState, cfg, 1))

(***************************************************************************)
(* Specification SpecLintFile: lint on a whole store.                      *)
(***************************************************************************)
\* an object section: the entries of a VAR of type UNSIGNED32, with the
\* entries of extra in place of or next to them
LintObject(extra) ==
    extra @@ [ParameterName |-> Text("object"), DataType |-> Hex(\h0007),
              AccessType |-> Text("ro")]

\* the names of object 0x1000, of its sub-objects and of its compact sections
N_1000 == Hex4(\h1000)
N_1000sub0 == N_1000 \o <<"s", "u", "b", "0">>
N_1000SUB1 == N_1000 \o <<"S", "U", "B", "1">>
N_1000subFF == N_1000 \o <<"s", "u", "b", "F", "F">>
N_1000Value == N_1000 \o <<"V", "a", "l", "u", "e">>
N_1000Name == N_1000 \o <<"N", "a", "m", "e">>

\* names outside the section taxonomy
N_1G00 == <<"1", "G", "0", "0">>
N_1x00 == <<"1", "x", "0", "0">>
N_WXYZ == <<"W", "X", "Y", "Z">>
N_10000 == <<"1", "0", "0", "0", "0">>
N_Tools == <<"T", "o", "o", "l", "s">>

\* the sections that know their entries by name
LintFixed ==
    {<<N_FileInfo, [FileName |-> Text("a.eds")]>>,
     <<N_FileInfo, [FileName |-> Text("a.eds"), Tool |-> Text("b")]>>,
     <<LowerName(N_DeviceInfo), [VendorName |-> Text("a")]>>,
     <<N_DeviceComissioning, [NodeID |-> Dec(2)]>>,
     <<N_Comments, [Lines |-> Dec(0)]>>,
     <<N_DummyUsage, [Dummy0001 |-> Dec(1), Dummy0002 |-> Dec(0)]>>,
     <<N_DummyUsage, [Dummy0005 |-> Dec(2)]>>,
     <<N_DummyUsage, [Tool |-> Dec(1)]>>}

\* the object lists
LintLists ==
    {<<N_MandatoryObjects, [SupportedObjects |-> Dec(1)] @@ ("1" :> Hex(\h1000))>>,
     <<N_MandatoryObjects, [SupportedObjects |-> Dec(1)] @@ ("1" :> Hex(\h1017))>>,
     <<N_MandatoryObjects, [SupportedObjects |-> Dec(1)] @@ ("1" :> Text("abc"))>>,
     <<N_MandatoryObjects, [SupportedObjects |-> Dec(2)] @@ ("1" :> Hex(\h1000))>>,
     <<N_MandatoryObjects, [SupportedObjects |-> Dec(0)] @@ ("1" :> Hex(\h1000))>>,
     <<N_MandatoryObjects, [SupportedObjects |-> Text("abc")]>>,
     <<N_MandatoryObjects, [SupportedObjects |-> Dec(0), Tool |-> Dec(1)]>>,
     <<N_OptionalObjects, [SupportedObjects |-> Dec(1)] @@ ("1" :> Hex(\h1000))>>,
     <<N_OptionalObjects, [SupportedObjects |-> Dec(1)] @@ ("1" :> Hex(\h2000))>>,
     <<N_OptionalObjects, [SupportedObjects |-> Dec(1)] @@ ("1" :> Hex(\h0005))>>,
     <<N_ManufacturerObjects, [SupportedObjects |-> Dec(1)] @@ ("1" :> Hex(\h2000))>>,
     <<N_ManufacturerObjects, [SupportedObjects |-> Dec(1)] @@ ("1" :> Hex(\h1000))>>}

\* the sections of an object whose entries are well-formed
LintObjects ==
    {<<N_1000, LintObject(EmptyDict)>>,
     <<N_1000, LintObject([DefaultValue |-> Dec(5)])>>,
     <<N_1000, LintObject([DataType |-> Hex(\h0005), DefaultValue |-> Dec(500)])>>,
     <<N_1000, LintObject([AccessType |-> Text("rx"), Tool |-> Dec(1)])>>,
     <<N_1000, [DataType |-> Hex(\h0007), AccessType |-> Text("ro")]>>,
     <<N_1000, [ParameterName |-> Text("object"), AccessType |-> Text("ro")]>>,
     <<N_1000, [ParameterName |-> Text("object"), ObjectType |-> Hex(\h09),
                SubNumber |-> Dec(1)]>>,
     <<N_1000, [ParameterName |-> Text("object"), ObjectType |-> Hex(\h09),
                SubNumber |-> Dec(2), AccessType |-> Text("ro")]>>,
     <<N_1000, LintObject([SubNumber |-> Dec(1), CompactSubObj |-> Dec(1)])>>,
     <<N_1000, LintObject([SubNumber |-> Dec(1)])>>,
     <<N_1000, LintObject([ObjectType |-> Hex(\h08), CompactSubObj |-> Dec(1)])>>,
     <<N_1000, [ParameterName |-> Text("object"), DataType |-> Hex(\h0007),
                CompactSubObj |-> Dec(1)]>>}

\* the sections of a sub-object and the compact sections
LintSubObjects ==
    {<<N_1000sub0, LintObject([DataType |-> Hex(\h0005), DefaultValue |-> Dec(1)])>>,
     <<N_1000sub0, LintObject(EmptyDict)>>,
     <<N_1000SUB1, [ParameterName |-> Text("sub"), DataType |-> Hex(\h0007)]>>,
     <<N_1000subFF, LintObject(EmptyDict)>>,
     <<N_1000Value, [NrOfEntries |-> Dec(1)] @@ ("1" :> Dec(5))>>,
     <<N_1000Value, [NrOfEntries |-> Dec(1)] @@ ("1" :> Text("abc"))>>,
     <<N_1000Value, [NrOfEntries |-> Dec(2)] @@ ("2" :> Dec(5))>>,
     <<N_1000Value, [NrOfEntries |-> Dec(0)] @@ ("1" :> Dec(5))>>,
     <<N_1000Name, [NrOfEntries |-> Text("abc"), Tool |-> Dec(1)]>>}

\* sections whose name is outside the section taxonomy
LintUnknown ==
    {<<N_1G00, LintObject(EmptyDict)>>, <<N_1x00, LintObject(EmptyDict)>>,
     <<N_WXYZ, LintObject(EmptyDict)>>, <<N_10000, LintObject(EmptyDict)>>,
     <<N_Tools, [Tool |-> Dec(1)]>>}

\* object sections with an entry that is not a number where lint reads one
LintMalformed ==
    {<<N_1000, LintObject([ObjectType |-> Text("abc")])>>,
     <<N_1000, LintObject([SubNumber |-> Text("abc")])>>,
     <<N_1000, LintObject([CompactSubObj |-> Text("abc")])>>,
     <<N_1000, LintObject([DataType |-> Text("abc")])>>,
     <<N_1000, LintObject([LowLimit |-> Text("abc"), DefaultValue |-> Dec(5)])>>,
     <<N_1000, LintObject([HighLimit |-> Str("number", "", FALSE, 10, <<0, 1, 0>>),
                           DefaultValue |-> Dec(5)])>>,
     <<N_1000sub0, LintObject([DataType |-> Text("abc")])>>}

LintPool ==
    LintFixed \cup LintLists \cup LintObjects \cup LintSubObjects \cup LintUnknown
        \cup LintMalformed

\* the stores: behind DEFAULT, one or two sections of different names
LintStores ==
    {<<<<N_DEFAULT, EmptyDict>>, a>> : a \in LintPool}
        \cup {<<<<N_DEFAULT, EmptyDict>>, p[1], p[2]>> :
                 p \in {q \in LintPool \X LintPool :
                           LowerName(q[1][1]) # LowerName(q[2][1])}}

InitLintFile ==
    /\ call \in [fn : {"lint"}, cfg : LintStores]
    /\ ret = NoRet
    /\ warnings = <<>>

\* lint(cfg)
lint_file ==
    /\ call.fn = "lint"
    /\ ret = NoRet
    /\ \E r \in {lint(call.cfg)} :
           /\ ret' = <<[exc |-> r.exc, value |-> r.value]>>
           /\ warnings' = warnings \o r.warn
    /\ UNCHANGED call

NextLintFile == lint_file

SpecLintFile == InitLintFile /\ [][NextLintFile]_vars

(***************************************************************************)
(* C18: sections outside the section taxonomy.                             *)
(***************************************************************************)
\* the name is none of the fixed sections
NotFixed(name) ==
    LowerName(name) \notin
        {LowerName(N_FileInfo), LowerName(N_DeviceComissioning), LowerName(N_DeviceInfo),
         LowerName(N_DummyUsage), LowerName(N_Comments), LowerName(N_MandatoryObjects),
         LowerName(N_OptionalObjects), LowerName(N_ManufacturerObjects)}

\* the name is not four hexadecimal digits followed by nothing, Name, Value or
\* sub and hexadecimal digits
NotObjectName(name) ==
    \/ Len(name) < 4
    \/ \E j \in 1 .. 4 : LowerChar(name[j]) \notin ClassAF
    \/ /\ Len(name) > 4
       /\ LowerName(SubSeq(name, 5, Len(name)))
              \notin {<<"n", "a", "m", "e">>, <<"v", "a", "l", "u", "e">>}
       /\ ~(/\ Len(name) > 7
            /\ LowerName(SubSeq(name, 5, 7)) = <<"s", "u", "b">>
            /\ \A j \in 8 .. Len(name) : LowerChar(name[j]) \in ClassAF)

\* the sections of the store behind DEFAULT whose name is outside the taxonomy
OutsideTaxonomy ==
    {j \in 2 .. Len(call.cfg) : NotFixed(call.cfg[j][1]) /\ NotObjectName(call.cfg[j][1])}

\* C18 as stated: lint returns false, with a warning, for every store that has
\* a section whose name is neither a fixed section nor four hexadecimal digits
\* with an optional Name, Value or sub<hex digits>.  Violated: the pattern
\* __p_object takes the letters up to X, so [1G00] matches it and
\* int("1G00", 16) raises ValueError out of lint.
C18_Original ==
    (call.fn = "lint" /\ ret # NoRet /\ OutsideTaxonomy # {})
        => (ret[1].exc = "" /\ ~ret[1].value /\ warnings # <<>>)

\* C18, the part that the code keeps: a section that is no fixed section and
\* that __p_object does not match makes lint return false with the warning
\* "unknown section", unless another section raised before.
C18_UnmatchedRejected ==
    (call.fn = "lint" /\ ret # NoRet /\ ret[1].exc = "")
        => \A j \in 2 .. Len(call.cfg) :
               (NotFixed(call.cfg[j][1]) /\ p_object_match(call.cfg[j][1]) = <<>>)
                   => /\ ~ret[1].value
                      /\ \E w \in 1 .. Len(warnings) :
                             warnings[w] = <<"unknown section", call.cfg[j][1]>>

\* the store with the only section [1G00]: lint raises ValueError and no
\* warning was emitted
C18_Scenario ==
    /\ call.fn = "lint"
    /\ call.cfg = <<<<N_DEFAULT, EmptyDict>>, <<N_1G00, LintObject(EmptyDict)>>>>
    /\ ret = <<[exc |-> "ValueError", value |-> FALSE]>>
    /\ warnings = <<>>

\* the store with the only section [WXYZ]: lint returns false with the warning
C18_ScenarioRejected ==
    /\ call.fn = "lint"
    /\ call.cfg = <<<<N_DEFAULT, EmptyDict>>, <<N_WXYZ, LintObject(EmptyDict)>>>>
    /\ ret = <<[exc |-> "", value |-> FALSE]>>
    /\ warnings = <<<<"unknown section", N_WXYZ>>>>

(***************************************************************************)
(* C19: lint as a total, pure predicate.                                   *)
(***************************************************************************)
\* the sections of the store where an entry that lint reads as a number is not
\* one
Malformed ==
    {j \in 2 .. Len(call.cfg) :
        \E key \in {"ObjectType", "SubNumber", "CompactSubObj", "DataType"} :
            /\ Has(call.cfg[j][2], key)
            /\ python_int(call.cfg[j][2][key], 0).exc # ""}

\* C19 as stated, on the stores whose section names are all inside the
\* taxonomy: lint finishes by returning true or false, and a non-numeric
\* ObjectType, SubNumber, CompactSubObj or DataType gives false with a warning.
\* Violated: __parse_object converts ObjectType, SubNumber and CompactSubObj
\* with int() outside any try, and __parse_data_type reads data_type after the
\* except branch that left it unbound.
C19_Original ==
    (call.fn = "lint" /\ ret # NoRet /\ OutsideTaxonomy = {})
        => /\ ret[1].exc = ""
           /\ Malformed # {} => (~ret[1].value /\ warnings # <<>>)

\* C19, the part about the limits: a LowLimit or HighLimit that is not a valid
\* literal, in an object section whose other entries are numbers, is reported
\* with a warning and lint returns instead of raising.
C19_LimitWarned ==
    (call.fn = "lint" /\ ret # NoRet /\ Len(call.cfg) = 2
     /\ call.cfg[2][1] = N_1000 /\ Malformed = {}
     /\ \E key \in {"LowLimit", "HighLimit"} :
            /\ Has(call.cfg[2][2], key)
            /\ \/ call.cfg[2][2][key].form = "text"
               \/ python_int(call.cfg[2][2][key], 0).exc # "")
        => (ret[1].exc = "" /\ warnings # <<>>)

\* C19, the part about purity: no step of lint changes the store
C19_StoreUnchanged == [][call' = call]_vars

\* the store with the only section [1000] and ObjectType=abc: lint raises
\* ValueError
C19_Scenario ==
    /\ call.fn = "lint"
    /\ call.cfg = <<<<N_DEFAULT, EmptyDict>>,
                    <<N_1000, LintObject([ObjectType |-> Text("abc")])>>>>
    /\ ret = <<[exc |-> "ValueError", value |-> FALSE]>>

\* the store with the only section [1000] and DataType=abc: lint warns about
\* the DataType and then raises UnboundLocalError
C19_ScenarioDataType ==
    /\ call.fn = "lint"
    /\ call.cfg = <<<<N_DEFAULT, EmptyDict>>,
                    <<N_1000, LintObject([DataType |-> Text("abc")])>>>>
    /\ ret = <<[exc |-> "UnboundLocalError", value |-> FALSE]>>
    /\ warnings # <<>>

\* the store with the only section [1000] and LowLimit=abc: lint returns false
C19_ScenarioLimit ==
    /\ call.fn = "lint"
    /\ call.cfg = <<<<N_DEFAULT, EmptyDict>>,
                    <<N_1000, LintObject([LowLimit |-> Text("abc"),
                                          DefaultValue |-> Dec(5)])>>>>
    /\ ret = <<[exc |-> "", value |-> FALSE]>>
    /\ warnings # <<>>

(***************************************************************************)
(* dcf/device.py, dcf2dev/cdevice.py, dcf2dev/cli.py: the tables of        *)
(* DataType and CDataType that add_custom writes to, and the two options   *)
(* of dcf2dev that call it.  A parser is named by its function.            *)
(***************************************************************************)
\* DataType.__name
DataType_name ==
    (\h0001 :> "BOOLEAN") @@ (\h0002 :> "INTEGER8") @@ (\h0003 :> "INTEGER16") @@
    (\h0004 :> "INTEGER32") @@ (\h0005 :> "UNSIGNED8") @@ (\h0006 :> "UNSIGNED16") @@
    (\h0007 :> "UNSIGNED32") @@ (\h0008 :> "REAL32") @@ (\h0009 :> "VISIBLE_STRING") @@
    (\h000A :> "OCTET_STRING") @@ (\h000B :> "UNICODE_STRING") @@
    (\h000C :> "TIME_OF_DAY") @@ (\h000D :> "TIME_DIFF") @@ (\h000F :> "DOMAIN") @@
    (\h0010 :> "INTEGER24") @@ (\h0011 :> "REAL64") @@ (\h0012 :> "INTEGER40") @@
    (\h0013 :> "INTEGER48") @@ (\h0014 :> "INTEGER56") @@ (\h0015 :> "INTEGER64") @@
    (\h0016 :> "UNSIGNED24") @@ (\h0018 :> "UNSIGNED40") @@ (\h0019 :> "UNSIGNED48") @@
    (\h001A :> "UNSIGNED56") @@ (\h001B :> "UNSIGNED64")

\* DataType.__parse
DataType_parse ==
    (\h0001 :> "_parse_int") @@ (\h0002 :> "_parse_int") @@ (\h0003 :> "_parse_int") @@
    (\h0004 :> "_parse_int") @@ (\h0005 :> "_parse_int") @@ (\h0006 :> "_parse_int") @@
    (\h0007 :> "_parse_int") @@ (\h0008 :> "_parse_real32") @@
    (\h0009 :> "_parse_string") @@ (\h000A :> "_parse_hex") @@
    (\h000B :> "_parse_string") @@ (\h000C :> "_parse_time") @@
    (\h000D :> "_parse_time") @@ (\h000F :> "_parse_hex") @@
    (\h0010 :> "_parse_int") @@ (\h0011 :> "_parse_real64") @@
    (\h0012 :> "_parse_int") @@ (\h0013 :> "_parse_int") @@ (\h0014 :> "_parse_int") @@
    (\h0015 :> "_parse_int") @@ (\h0016 :> "_parse_int") @@ (\h0018 :> "_parse_int") @@
    (\h0019 :> "_parse_int") @@ (\h001A :> "_parse_int") @@ (\h001B :> "_parse_int")

\* CDataType.__member
CDataType_member ==
    (\h0001 :> "b") @@ (\h0002 :> "i8") @@ (\h0003 :> "i16") @@ (\h0004 :> "i32") @@
    (\h0005 :> "u8") @@ (\h0006 :> "u16") @@ (\h0007 :> "u32") @@ (\h0008 :> "r32") @@
    (\h0009 :> "vs") @@ (\h000A :> "os") @@ (\h000B :> "us") @@ (\h000C :> "t") @@
    (\h000D :> "td") @@ (\h000F :> "dom") @@ (\h0010 :> "i24") @@ (\h0011 :> "r64") @@
    (\h0012 :> "i40") @@ (\h0013 :> "i48") @@ (\h0014 :> "i56") @@ (\h0015 :> "i64") @@
    (\h0016 :> "u24") @@ (\h0018 :> "u40") @@ (\h0019 :> "u48") @@ (\h001A :> "u56") @@
    (\h001B :> "u64")

\* DataType.add_custom(index, name, parse) on the tables reg
DataType_add_custom(reg, index, name, parse) ==
    [name |-> [i \in DOMAIN reg.name \cup {index} |->
                  IF i = index THEN name ELSE reg.name[i]],
     parse |-> [i \in DOMAIN reg.parse \cup {index} |->
                   IF i = index THEN parse ELSE reg.parse[i]]]

\* CDataType.add_custom(index, member, format_spec) on the table of members;
\* the format specifications are strings that nothing here reads
CDataType_add_custom(member, index, name) ==
    [i \in DOMAIN member \cup {index} |-> IF i = index THEN name ELSE member[i]]

(***************************************************************************)
(* Specification SpecRegistry: the options --deftype-time-scet and         *)
(* --deftype-time-sutc of dcf2dev, on the tables as the modules set them   *)
(* up.  An option is <<>> when absent and <<index>> when given.            *)
(***************************************************************************)
\* the indices given to the options: data types of DataType.__name, indices
\* it does not know, and what else type=int accepts
RegistryIndices == {0 - 1, 0, \h0005, \h0007, \h0008, \h000C, \h000E, \h0017, \h0060, \h0061}

RegistryOptions == {<<>>} \cup {<<index>> : index \in RegistryIndices}

InitRegistry ==
    /\ call \in [fn : {"dcf2dev"}, deftype_time_scet : RegistryOptions,
                 deftype_time_sutc : RegistryOptions, pc : {"scet"},
                 DataType : {[name |-> DataType_name, parse |-> DataType_parse]},
                 CDataType : {CDataType_member}]
    /\ ret = NoRet
    /\ warnings = <<>>

\* if args.deftype_time_scet: ...
main_time_scet ==
    /\ call.fn = "dcf2dev"
    /\ call.pc = "scet"
    /\ call' = IF call.deftype_time_scet = <<>> THEN [call EXCEPT !.pc = "sutc"]
               ELSE [call EXCEPT
                       !.pc = "sutc",
                       !.DataType = DataType_add_custom(@, call.deftype_time_scet[1],
                                                        "TIME_SCET", "parse_time_scet"),
                       !.CDataType = CDataType_add_custom(@, call.deftype_time_scet[1],
                                                          "scet")]
    /\ UNCHANGED <<ret, warnings>>

\* if args.deftype_time_sutc: ...
main_time_sutc ==
    /\ call.fn = "dcf2dev"
    /\ call.pc = "sutc"
    /\ call' = IF call.deftype_time_sutc = <<>> THEN [call EXCEPT !.pc = "read"]
               ELSE [call EXCEPT
                       !.pc = "read",
                       !.DataType = DataType_add_custom(@, call.deftype_time_sutc[1],
                                                        "TIME_SUTC", "parse_time_sutc"),
                       !.CDataType = CDataType_add_custom(@, call.deftype_time_sutc[1],
                                                          "sutc")]
    /\ UNCHANGED <<ret, warnings>>

NextRegistry == main_time_scet \/ main_time_sutc

SpecRegistry == InitRegistry /\ [][NextRegistry]_vars

(***************************************************************************)
(* C20: the registry of data types under add_custom.                       *)
(***************************************************************************)
\* C20 as stated: once an index has an entry, built-in or added earlier, a
\* later DataType.add_custom for that index leaves its name and its parser
\* unchanged.  Violated: add_custom assigns both tables without looking at
\* them.
C20_Original ==
    [][\A index \in DOMAIN call.DataType.name :
           /\ call'.DataType.name[index] = call.DataType.name[index]
           /\ call'.DataType.parse[index] = call.DataType.parse[index]]_vars

\* C20, what the code does: after the two options, an index given to an option
\* has the name and the parser of the last option that named it, and every
\* other index has the entry of the built-in tables or none.
C20_LastWins ==
    (call.fn = "dcf2dev" /\ call.pc = "read")
        => /\ DOMAIN call.DataType.name = DOMAIN call.DataType.parse
           /\ \A index \in DOMAIN call.DataType.name :
                  IF <<index>> = call.deftype_time_sutc
                  THEN /\ call.DataType.name[index] = "TIME_SUTC"
                       /\ call.DataType.parse[index] = "parse_time_sutc"
                  ELSE IF <<index>> = call.deftype_time_scet
                  THEN /\ call.DataType.name[index] = "TIME_SCET"
                       /\ call.DataType.parse[index] = "parse_time_scet"
                  ELSE /\ index \in DOMAIN DataType_name
                       /\ call.DataType.name[index] = DataType_name[index]
                       /\ call.DataType.parse[index] = DataType_parse[index]

\* --deftype-time-scet 7: the entry of UNSIGNED32 has become TIME_SCET with
\* the parser of dcf2dev
C20_Scenario ==
    /\ call.fn = "dcf2dev"
    /\ call.pc = "read"
    /\ call.deftype_time_scet = <<\h0007>>
    /\ call.deftype_time_sutc = <<>>
    /\ DataType_name[\h0007] = "UNSIGNED32"
    /\ call.DataType.name[\h0007] = "TIME_SCET"
    /\ call.DataType.parse[\h0007] = "parse_time_scet"

\* both options with the index 0x60: the entry that the first option added is
\* replaced by the second
C20_ScenarioTwice ==
    /\ call.fn = "dcf2dev"
    /\ call.pc = "read"
    /\ call.deftype_time_scet = <<\h0060>>
    /\ call.deftype_time_sutc = <<\h0060>>
    /\ call.DataType.name[\h0060] = "TIME_SUTC"
    /\ call.DataType.parse[\h0060] = "parse_time_sutc"

(***************************************************************************)
(* C21: the boot fields of the overlay.                                    *)
(***************************************************************************)
\* the keys of the boot fields that are assigned to the field of their name
BootKeys ==
    {"boot", "mandatory", "reset_communication", "software_file", "software_version",
     "restore_configuration"}

\* the value that from_config converts the entry of key to
BootValue(key) ==
    CASE key \in {"boot", "mandatory", "reset_communication"} ->
             python_bool(YGet(call.cfg, key))
      [] key = "software_file" -> python_str(YGet(call.cfg, key))
      [] OTHER -> python_int_node(YGet(call.cfg, key)).value

\* the call is a run of the boot fields that has returned
BootReturned ==
    call \in BootRuns /\ ret # NoRet /\ ret[1].exc = ""

\* the records that the overlay asks for apart from the boot fields: the one
\* of heartbeat_producer when the overlay gives it
BootRecords == IF YHas(call.cfg, "heartbeat_producer") THEN 1 ELSE 0

\* C21 as stated: each boot field of the overlay is stored in the slave field
\* of the same name and adds no record; configuration_file becomes
\* slave.configuration_file and leaves slave.dcf_path as main set it.
\* Violated: the block of "configuration_file" assigns slave.dcf_path.
C21_Original ==
    BootReturned
        => /\ \A key \in BootKeys :
                  YHas(call.cfg, key) => ret[1].value.slave[key] = BootValue(key)
           /\ Len(ret[1].value.sdo) = BootRecords
           /\ YHas(call.cfg, "configuration_file")
                  => /\ ret[1].value.slave.configuration_file
                            = <<python_str(YGet(call.cfg, "configuration_file"))>>
                     /\ ret[1].value.slave.dcf_path = call.options.dcf_path

\* C21, what the code does: the six other fields are stored under their name
\* and no boot field adds a record; an overlay configuration_file is stored
\* in slave.dcf_path, and slave.configuration_file is the path of the .bin
\* file under the dcf_path of main when slave.sdo has a record, empty otherwise.
C21_StoredInDcfPath ==
    BootReturned
        => /\ \A key \in BootKeys :
                  YHas(call.cfg, key) => ret[1].value.slave[key] = BootValue(key)
           /\ Len(ret[1].value.sdo) = BootRecords
           /\ ret[1].value.slave.configuration_file
                  = IF BootRecords = 0 THEN <<>>
                    ELSE call.options.dcf_path \o <<call.name, ".bin">>
           /\ ret[1].value.slave.dcf_path
                  = IF YHas(call.cfg, "configuration_file")
                    THEN <<python_str(YGet(call.cfg, "configuration_file"))>>
                    ELSE call.options.dcf_path

\* the overlay {configuration_file: cfg.bin} under main's dcf_path "out":
\* from_config returns a slave whose dcf_path is cfg.bin and whose
\* configuration_file is empty
C21_Scenario ==
    /\ BootReturned
    /\ call.options.dcf_path = <<"out">>
    /\ YHas(call.cfg, "configuration_file")
    /\ ~YHas(call.cfg, "heartbeat_producer")
    /\ ret[1].value.slave.dcf_path = <<"cfg.bin">>
    /\ ret[1].value.slave.configuration_file = <<>>
    /\ ret[1].value.sdo = <<>>

\* the overlay {boot: "false"}: the field boot is bool("false"), which is True
C21_ScenarioBoot ==
    /\ BootReturned
    /\ YHas(call.cfg, "boot")
    /\ YGet(call.cfg, "boot") = YStr("false")
    /\ ret[1].value.slave.boot

(***************************************************************************)
(* C22: the node-ID of a constructed Device.                               *)
(***************************************************************************)
\* the node-ID is one of 1..127 or 255
ValidNodeId(node_id) == (node_id >= 1 /\ node_id <= 127) \/ node_id = 255

\* Device(cfg, env) has returned a Device
Constructed == call.fn = "Device" /\ ret # NoRet /\ ret[1].exc = ""

\* the node-ID that the call asks for: NODEID of the caller's env, else NodeID
\* of [DeviceComissioning], else 255
AskedNodeId ==
    IF "NODEID" \in DOMAIN call.env THEN call.env["NODEID"]
    ELSE IF <<"DeviceComissioning">> \in DOMAIN call.cfg
            /\ "NodeID" \in DOMAIN call.cfg[<<"DeviceComissioning">>]
    THEN python_int(call.cfg[<<"DeviceComissioning">>]["NodeID"], 0).value
    ELSE 255

C22_WitnessEnv ==
    /\ Constructed
    /\ call.env = Env(128)
    /\ ret[1].value.node_id = 128
    /\ warnings # <<>> /\ warnings[1] = "node-ID"

(***************************************************************************)
(* C24: the communication parameters that PDO.from_device reads.           *)
(***************************************************************************)
\* the index of the communication record of a store of CommStores, its
\* sub-object 0 and the sub-objects that have a section
CommIndex ==
    CHOOSE comm \in {\h1400, \h15FF, \h1800, \h19FF} : ObjName(comm) \in DOMAIN call.cfg
CommN == python_int(call.cfg[SubName(CommIndex, 0)]["DefaultValue"], 0).value
CommPresent(k) == SubName(CommIndex, k) \in DOMAIN call.cfg

\* the index is one of the 512 TPDO communication records
CommIsTpdo == CommIndex >= \h1800 /\ CommIndex <= \h19FF

\* the PDO that the Device holds for the record
CommPdo ==
    IF CommIsTpdo THEN ret[1].value.tpdo[CommIndex - \h1800 + 1]
    ELSE ret[1].value.rpdo[CommIndex - \h1400 + 1]

\* the value of sub-object k if the record counts it and has it, else default
CommRead(k, default) ==
    IF CommN >= k /\ CommPresent(k)
    THEN python_int(call.cfg[SubName(CommIndex, k)]["DefaultValue"], 0).value
    ELSE default

\* C24: from_device reads sub-entry k into its field only if sub0 is at least
\* k and sub-entry k is present, otherwise the field keeps its default: sub 1
\* is cob_id (default 0x80000000), sub 2 transmission_type, sub 3 inhibit_time
\* and sub 6 sync_start_value for a TPDO only, sub 5 event_timer for a TPDO
\* and event_deadline for an RPDO; the records 0x1800..0x19FF are the TPDOs.
C24_CommFields ==
    (call.fn = "Device" /\ call.cfg \in CommStores /\ ret # NoRet)
        => /\ ret[1].exc = ""
           /\ DOMAIN ret[1].value.tpdo
                  = IF CommIsTpdo THEN {CommIndex - \h1800 + 1} ELSE {}
           /\ DOMAIN ret[1].value.rpdo
                  = IF CommIsTpdo THEN {} ELSE {CommIndex - \h1400 + 1}
           /\ CommPdo.cob_id = CommRead(1, OrBit31(0))
           /\ CommPdo.transmission_type = CommRead(2, 0)
           /\ CommPdo.inhibit_time = IF CommIsTpdo THEN CommRead(3, 0) ELSE 0
           /\ CommPdo.event_timer = IF CommIsTpdo THEN CommRead(5, 0) ELSE 0
           /\ CommPdo.event_deadline = IF CommIsTpdo THEN 0 ELSE CommRead(5, 0)
           /\ CommPdo.sync_start_value = IF CommIsTpdo THEN CommRead(6, 0) ELSE 0

\* the last TPDO with sub0 = 5 and every sub-object present: sub 5 is read into
\* event_timer, sub 6 is present and stays unread
C24_Witness ==
    /\ call.fn = "Device" /\ call.cfg \in CommStores /\ ret # NoRet
    /\ CommIndex = \h19FF /\ CommN = 5
    /\ \A k \in {1, 2, 3, 5, 6} : CommPresent(k)
    /\ CommPdo.cob_id = \h181 /\ CommPdo.transmission_type = 1
    /\ CommPdo.inhibit_time = 10 /\ CommPdo.event_timer = 100
    /\ CommPdo.event_deadline = 0 /\ CommPdo.sync_start_value = 0

\* the last RPDO with sub0 = 6 and no sub-object 2: sub 5 is read into
\* event_deadline, the transmission type keeps its default and the sub-objects
\* 3 and 6 stay unread
C24_WitnessRpdo ==
    /\ call.fn = "Device" /\ call.cfg \in CommStores /\ ret # NoRet
    /\ CommIndex = \h15FF /\ CommN = 6
    /\ ~CommPresent(2) /\ CommPresent(3) /\ CommPresent(6)
    /\ CommPdo.cob_id = \h181 /\ CommPdo.transmission_type = 0
    /\ CommPdo.inhibit_time = 0 /\ CommPdo.event_timer = 0
    /\ CommPdo.event_deadline = 100 /\ CommPdo.sync_start_value = 0

(***************************************************************************)
(* C23: the records of a PDO, replayed in order on the device.             *)
(***************************************************************************)
\* the object, the sub-index and bit 31 of the 32-bit value of a record
RecordIndex(rec) == FromLittleEndian(SubSeq(rec, 1, 2), FALSE)
RecordSub(rec) == rec[3]
RecordBit31(rec) == Len(rec) = 11 /\ rec[11] >= 128

\* the record is written to the PDO with the communication record comm
OfPdo(rec, comm) == RecordIndex(rec) \in {comm, comm + \h200}

\* the records from k on keep the order of the PDO at comm, on a device where
\* the PDO is disabled or not and its mapping object counts `count` entries
RECURSIVE Replay(_, _, _, _, _)
Replay(recs, k, comm, disabled, count) ==
    IF k > Len(recs) THEN TRUE
    ELSE CASE RecordIndex(recs[k]) = comm /\ RecordSub(recs[k]) = 1 ->
                  /\ ~RecordBit31(recs[k])
                        => \A later \in k + 1 .. Len(recs) : ~OfPdo(recs[later], comm)
                  /\ Replay(recs, k + 1, comm, RecordBit31(recs[k]), count)
           [] RecordIndex(recs[k]) = comm /\ RecordSub(recs[k]) # 1 ->
                  disabled /\ Replay(recs, k + 1, comm, disabled, count)
           [] RecordIndex(recs[k]) = comm + \h200 /\ RecordSub(recs[k]) = 0 ->
                  disabled /\ Replay(recs, k + 1, comm, disabled, recs[k][8])
           [] RecordIndex(recs[k]) = comm + \h200 /\ RecordSub(recs[k]) # 0 ->
                  disabled /\ count = 0 /\ Replay(recs, k + 1, comm, disabled, count)
           [] OTHER -> Replay(recs, k + 1, comm, disabled, count)

\* C23: replayed in order on the device of the DCF, the records of from_config
\* write the transmission type, the inhibit time, the event timer, the
\* sync-start value and the mapping object of a PDO only while the COB-ID of
\* the PDO has bit 31 set, a mapping entry only while the mapping counts 0
\* entries, and nothing to the PDO after the record that clears bit 31.
C23_Replay ==
    (call.fn = "from_config" /\ ret # NoRet /\ ret[1].exc = "")
        => /\ \A i \in DOMAIN Loaded.rpdo :
                  Replay(ret[1].value.sdo, 1, \h1400 + i - 1,
                         HasBit31(Loaded.rpdo[i].cob_id), Loaded.rpdo[i].n)
           /\ \A i \in DOMAIN Loaded.tpdo :
                  Replay(ret[1].value.sdo, 1, \h1800 + i - 1,
                         HasBit31(Loaded.tpdo[i].cob_id), Loaded.tpdo[i].n)

\* RPDO 1, enabled in the DCF, under an overlay that gives a transmission type
\* and a mapping of one entry: the six records are the disabling one, 0x1400/2,
\* 0x1600/0 <- 0, 0x1600/1, 0x1600/0 <- 1 and the enabling one
C23_Witness ==
    /\ call.fn = "from_config" /\ ret # NoRet /\ ret[1].exc = ""
    /\ 1 \in DOMAIN Loaded.rpdo
    /\ ~HasBit31(Loaded.rpdo[1].cob_id)
    /\ Mention("rpdo", 1) # <<>>
    /\ YHas(Mention("rpdo", 1)[1], "transmission")
    /\ YHas(Mention("rpdo", 1)[1], "mapping")
    /\ Len(ret[1].value.sdo) = 6
    /\ RecordIndex(ret[1].value.sdo[1]) = \h1400
    /\ RecordSub(ret[1].value.sdo[1]) = 1 /\ RecordBit31(ret[1].value.sdo[1])
    /\ RecordIndex(ret[1].value.sdo[2]) = \h1400 /\ RecordSub(ret[1].value.sdo[2]) = 2
    /\ \E k \in 3 .. Len(ret[1].value.sdo) - 1 :
           /\ RecordIndex(ret[1].value.sdo[k]) = \h1600
           /\ RecordSub(ret[1].value.sdo[k]) = 1
           /\ RecordIndex(ret[1].value.sdo[k - 1]) = \h1600
           /\ RecordSub(ret[1].value.sdo[k - 1]) = 0
           /\ ret[1].value.sdo[k - 1][8] = 0
    /\ RecordIndex(ret[1].value.sdo[Len(ret[1].value.sdo)]) = \h1400
    /\ RecordSub(ret[1].value.sdo[Len(ret[1].value.sdo)]) = 1
    /\ ~RecordBit31(ret[1].value.sdo[Len(ret[1].value.sdo)])

(***************************************************************************)
(* C30: the PDOs kept by from_config and the PDOs left enabled.            *)
(***************************************************************************)
\* the records that write the COB-ID of the PDO at comm
CobIdWrites(recs, comm) ==
    {k \in 1 .. Len(recs) : RecordIndex(recs[k]) = comm /\ RecordSub(recs[k]) = 1}

\* bit 31 of the COB-ID of the PDO at comm after the records, on a device
\* where it was `disabled` before them
LeftDisabled(recs, comm, disabled) ==
    IF CobIdWrites(recs, comm) = {} THEN disabled
    ELSE RecordBit31(recs[CHOOSE k \in CobIdWrites(recs, comm) :
                              \A j \in CobIdWrites(recs, comm) : j <= k])

\* C30: a PDO that from_config keeps in slave.rpdo or slave.tpdo is enabled on
\* the device after the records: the last COB-ID written to it, or the COB-ID
\* of the DCF when none is written, has bit 31 clear.
C30_Original ==
    (call.fn = "from_config" /\ ret # NoRet /\ ret[1].exc = "")
        => /\ \A i \in DOMAIN ret[1].value.slave.rpdo :
                  ~LeftDisabled(ret[1].value.sdo, \h1400 + i - 1,
                                HasBit31(Loaded.rpdo[i].cob_id))
           /\ \A i \in DOMAIN ret[1].value.slave.tpdo :
                  ~LeftDisabled(ret[1].value.sdo, \h1800 + i - 1,
                                HasBit31(Loaded.tpdo[i].cob_id))

\* RPDO 1 is enabled in the DCF and the overlay sets enabled to false: the only
\* COB-ID record is the disabling one, and RPDO 1 is kept in slave.rpdo
C30_Scenario ==
    /\ call.fn = "from_config" /\ ret # NoRet /\ ret[1].exc = ""
    /\ Mention("rpdo", 1) # <<>>
    /\ YHas(Mention("rpdo", 1)[1], "enabled")
    /\ YGet(Mention("rpdo", 1)[1], "enabled") = YBool(FALSE)
    /\ ~HasBit31(Loaded.rpdo[1].cob_id)
    /\ CobIdWrites(ret[1].value.sdo, \h1400) # {}
    /\ \A k \in CobIdWrites(ret[1].value.sdo, \h1400) : RecordBit31(ret[1].value.sdo[k])
    /\ 1 \in DOMAIN ret[1].value.slave.rpdo
    /\ ~HasBit31(ret[1].value.slave.rpdo[1].cob_id)

\* what the code does: with enabled a false value the records end with the
\* PDO disabled on the device although the PDO is kept; in every other run
\* the PDOs kept are enabled on the device
Disables(kind, i) ==
    /\ Mention(kind, i) # <<>>
    /\ YHas(Mention(kind, i)[1], "enabled")
    /\ ~python_bool(YGet(Mention(kind, i)[1], "enabled"))

C30_KeptUnlessEnabledFalse ==
    (call.fn = "from_config" /\ ret # NoRet /\ ret[1].exc = "")
        => /\ \A i \in DOMAIN ret[1].value.slave.rpdo :
                  LeftDisabled(ret[1].value.sdo, \h1400 + i - 1,
                               HasBit31(Loaded.rpdo[i].cob_id))
                      <=> Disables("rpdo", i)
           /\ \A i \in DOMAIN ret[1].value.slave.tpdo :
                  LeftDisabled(ret[1].value.sdo, \h1800 + i - 1,
                               HasBit31(Loaded.tpdo[i].cob_id))
                      <=> Disables("tpdo", i)

(***************************************************************************)
(* C26: the value written to the entry of object 0x1016.                   *)
(***************************************************************************)
\* the slave j consumes the heartbeat of the master returned, and its first
\* record writes an entry of object 0x1016
ConsumerWritten(j) ==
    /\ call.fn = "main" /\ ret # NoRet /\ ret[1].exc = ""
    /\ call.slaves[j].slave.heartbeat_consumer
    /\ ret[1].value.heartbeat_producer * ret[1].value.heartbeat_multiplier > 0
    /\ call.slaves[j].sdo # <<>>
    /\ RecordIndex(call.slaves[j].sdo[1]) = \h1016
    /\ Len(call.slaves[j].sdo[1]) = 11

\* bits 16-23 and bits 0-15 of the value of a record of four bytes
WrittenNodeId(rec) == rec[10]
WrittenHeartbeatTime(rec) == rec[8] + 256 * rec[9]

\* C26: the node-ID field of the value written to the entry of 0x1016 is
\* master.node_id, and its heartbeat-time field is the producer time of the
\* master multiplied by the heartbeat multiplier, products above 0xFFFF
\* included.
C26_Original ==
    \A j \in DOMAIN call.slaves :
        ConsumerWritten(j)
            => /\ WrittenNodeId(call.slaves[j].sdo[1]) = ret[1].value.node_id
               /\ WrittenHeartbeatTime(call.slaves[j].sdo[1])
                      = ret[1].value.heartbeat_producer * ret[1].value.heartbeat_multiplier

\* what the code writes: the product modulo 0x10000
C26_TimeTruncated ==
    \A j \in DOMAIN call.slaves :
        ConsumerWritten(j)
            => /\ WrittenNodeId(call.slaves[j].sdo[1]) = ret[1].value.node_id
               /\ call.slaves[j].sdo[1][11] = 0
               /\ WrittenHeartbeatTime(call.slaves[j].sdo[1])
                      = (ret[1].value.heartbeat_producer
                             * ret[1].value.heartbeat_multiplier) % 65536

\* the master produces a heartbeat every 30000 ms and the multiplier is 3: the
\* time written is 90000 - 65536 = 24464 ms
C26_Scenario ==
    \E j \in DOMAIN call.slaves :
        /\ ConsumerWritten(j)
        /\ ret[1].value.heartbeat_producer = LongProducerTime
        /\ ret[1].value.heartbeat_multiplier = 3
        /\ 3 * LongProducerTime > 65535
        /\ WrittenNodeId(call.slaves[j].sdo[1]) = 1
        /\ WrittenHeartbeatTime(call.slaves[j].sdo[1]) = 3 * LongProducerTime - 65536

\* the product fits 16 bits and is written as it is
C26_ScenarioShort ==
    \E j \in DOMAIN call.slaves :
        /\ ConsumerWritten(j)
        /\ ret[1].value.heartbeat_producer = 50
        /\ WrittenHeartbeatTime(call.slaves[j].sdo[1]) = 150

(***************************************************************************)
(* C28: the .bin file of a slave and slave.configuration_file.             *)
(***************************************************************************)
\* Slave.write_bin: the file written for the slave j at the end of main, none
\* when slave.sdo is empty
write_bin(j) ==
    IF call.slaves[j].sdo # <<>> THEN <<call.slaves[j].name, ".bin">> ELSE <<>>

\* main is past Master.from_config, which returned a Master
AtWriteTime == call.fn = "main" /\ ret # NoRet /\ ret[1].exc = ""

\* C28: at the end of a run, slave.configuration_file is non-empty exactly for
\* the slaves for which write_bin writes a file, the slaves whose only record
\* is the heartbeat-consumer write of Master.from_config included.
C28_Original ==
    AtWriteTime
        => \A j \in DOMAIN call.slaves :
               call.slaves[j].slave.configuration_file # <<>> <=> write_bin(j) # <<>>

\* the slave has no record after Slave.from_config and one, the write to
\* 0x1016, after Master.from_config: slave_2.bin is written and
\* slave.configuration_file is empty
C28_Scenario ==
    /\ AtWriteTime
    /\ \E j \in DOMAIN call.slaves :
           /\ Len(call.slaves[j].sdo) = 1
           /\ RecordIndex(call.slaves[j].sdo[1]) = \h1016
           /\ write_bin(j) = <<"slave_2", ".bin">>
           /\ call.slaves[j].slave.configuration_file = <<>>

\* what the code does: the name of the file is recorded for the slaves that
\* have a record before Master.from_config, which adds records to 0x1016 only
C28_NamedBeforeMaster ==
    AtWriteTime
        => \A j \in DOMAIN call.slaves :
               /\ call.slaves[j].slave.configuration_file # <<>> => write_bin(j) # <<>>
               /\ call.slaves[j].slave.configuration_file # <<>>
                      <=> \E k \in 1 .. Len(call.slaves[j].sdo) :
                              RecordIndex(call.slaves[j].sdo[k]) # \h1016

(***************************************************************************)
(* Specification SpecProcess: successive calls of Device.from_dcf in one   *)
(* process.  The default of the parameter env is one dict, made when the   *)
(* function is defined: call.default_env holds it.  ret is the list of the *)
(* Devices returned; a Device made without an env argument holds the       *)
(* default dict itself (shared), so its env is call.default_env.           *)
(***************************************************************************)
\* the env dict after the block of Device.__init__ that reads
\* [DeviceComissioning].NodeID into it
Device_env(store, env0) ==
    IF "NODEID" \notin DOMAIN env0
       /\ <<"DeviceComissioning">> \in DOMAIN store
       /\ "NodeID" \in DOMAIN store[<<"DeviceComissioning">>]
       /\ python_int(store[<<"DeviceComissioning">>]["NodeID"], 0).exc = ""
    THEN [k \in DOMAIN env0 \cup {"NODEID"} |->
             IF k = "NODEID"
             THEN python_int(store[<<"DeviceComissioning">>]["NodeID"], 0).value
             ELSE env0[k]]
    ELSE env0

\* Device.from_dcf(filename, env): <<outcome, warnings, the dict env after the
\* call>>; lint_ok is the verdict of lint on the file
Device_from_dcf(dcf, env, lint_ok) ==
    CHOOSE out \in {
        IF cfg.exc # "" THEN <<cfg, <<>>, env>>
        ELSE IF ~lint_ok THEN <<Raise("ValueError"), <<>>, env>>
        ELSE Device_init(cfg.value, env) \o <<Device_env(cfg.value, env)>>
      : cfg \in {parse_file(dcf)}} : TRUE

\* the calls of a process
MaxCalls == 2

\* the DCFs of the calls: no NodeID, the node-IDs 2 and 3, the invalid node-ID 200
ProcessStores ==
    {DeviceStore([VendorNumber |-> Absent], [NodeID |-> n],
                 <<Dec(1), Absent, Absent, Absent>>, <<>>, EmptyDict) :
        n \in {Absent, Dec(2), Dec(3), Dec(200)}}

\* one call: the file, the verdict of lint on it, and the env argument (<<>>
\* when the caller gives none, else a dict of the caller's own)
ProcessCalls ==
    [dcf : ProcessStores, lint_ok : {TRUE}, env : {<<>>, <<EmptyDict>>, <<Env(5)>>}]
        \cup [dcf : ProcessStores, lint_ok : {FALSE}, env : {<<>>}]

InitProcess ==
    /\ call \in [fn : {"from_dcf"}, default_env : {EmptyDict}, k : {1},
                 calls : [1 .. MaxCalls -> ProcessCalls]]
    /\ ret = <<>>
    /\ warnings = <<>>

\* the k-th call Device.from_dcf(filename) or Device.from_dcf(filename, env)
from_dcf ==
    /\ call.fn = "from_dcf"
    /\ call.k <= Len(call.calls)
    /\ \E r \in {Device_from_dcf(call.calls[call.k].dcf,
                                 IF call.calls[call.k].env = <<>> THEN call.default_env
                                 ELSE call.calls[call.k].env[1],
                                 call.calls[call.k].lint_ok)} :
           /\ call' = [call EXCEPT !.k = @ + 1,
                                   !.default_env = IF call.calls[call.k].env = <<>>
                                                   THEN r[3] ELSE @]
           /\ ret' = Append(ret, [exc |-> r[1].exc,
                                  shared |-> call.calls[call.k].env = <<>>,
                                  node_id |-> IF r[1].exc = "" THEN r[1].value.node_id
                                              ELSE 0,
                                  env |-> r[3]])
           /\ warnings' = warnings \o r[2]

NextProcess == from_dcf

SpecProcess == InitProcess /\ [][NextProcess]_vars

(***************************************************************************)
(* C27: Device.from_dcf without env and the calls before it.               *)
(***************************************************************************)
\* the env of the k-th Device as the program reads it now
EnvOf(k) == IF ret[k].shared THEN call.default_env ELSE ret[k].env

\* the env that the DCF of the k-th call gives on its own
OwnEnv(k) == Device_env(call.calls[k].dcf, EmptyDict)

\* the k-th call gave no env and returned a Device
Defaulted(k) == k \in DOMAIN ret /\ ret[k].shared /\ ret[k].exc = ""

\* C27: the node_id and the env of a Device that from_dcf made without an env
\* argument are those of its own DCF, [DeviceComissioning].NodeID or 255 and
\* no NODEID, whatever Devices were made before it.
C27_Original ==
    call.fn = "from_dcf"
        => \A k \in DOMAIN ret :
               Defaulted(k)
                   => /\ ret[k].node_id = IF "NODEID" \in DOMAIN OwnEnv(k)
                                          THEN OwnEnv(k)["NODEID"] ELSE 255
                      /\ EnvOf(k) = OwnEnv(k)

\* the first call loads a DCF with NodeID=2 and the second one a DCF without
\* NodeID, both without env: the second Device has node_id 2
C27_Scenario ==
    /\ call.fn = "from_dcf"
    /\ Defaulted(1) /\ Defaulted(2)
    /\ OwnEnv(1) = Env(2) /\ OwnEnv(2) = EmptyDict
    /\ ret[1].node_id = 2
    /\ ret[2].node_id = 2 /\ EnvOf(2) = Env(2)

\* the first call loads a DCF without NodeID and the second one a DCF with
\* NodeID=3, both without env: the env of the first Device now holds NODEID 3
\* while its node_id is 255
C27_ScenarioEarlier ==
    /\ call.fn = "from_dcf"
    /\ Defaulted(1) /\ Defaulted(2)
    /\ OwnEnv(1) = EmptyDict /\ OwnEnv(2) = Env(3)
    /\ ret[1].node_id = 255 /\ EnvOf(1) = Env(3)

\* the calls before k that gave no env, passed lint and loaded a DCF with a NodeID
Earlier(k) ==
    {j \in 1 .. k - 1 : ret[j].shared /\ call.calls[j].lint_ok
                        /\ "NODEID" \in DOMAIN OwnEnv(j)}

\* what the code does: the NodeID of the first DCF loaded without env stays in
\* the default dict and is the node_id of every later Device made without env;
\* a Device made with an env of the caller's depends on its own call only
C27_FirstNodeIdStays ==
    call.fn = "from_dcf"
        => \A k \in DOMAIN ret :
               /\ Defaulted(k) /\ Earlier(k) # {}
                      => ret[k].node_id
                             = OwnEnv(CHOOSE j \in Earlier(k) :
                                          \A i \in Earlier(k) : j <= i)["NODEID"]
               /\ Defaulted(k) /\ Earlier(k) = {}
                      => ret[k].node_id = IF "NODEID" \in DOMAIN OwnEnv(k)
                                          THEN OwnEnv(k)["NODEID"] ELSE 255
               /\ ~ret[k].shared /\ ret[k].exc = ""
                      => /\ ret[k].env = Device_env(call.calls[k].dcf, call.calls[k].env[1])
                         /\ ret[k].node_id = IF "NODEID" \in DOMAIN ret[k].env
                                             THEN ret[k].env["NODEID"] ELSE 255

(***************************************************************************)
(* C25: the sections that the CompactPDO expansion creates.                *)
(***************************************************************************)
\* the store given to the pass that returned, and the store it returned
PassIn == call.cfg
PassOut == ret[1].value

\* the pass returned a store
PassDone == call.fn \in {"parse_file", "expand_again"} /\ ret # NoRet /\ ret[1].exc = ""

\* the communication records and the object sections that the pass created
SynthComm ==
    {comm \in (\h1400 .. \h15FF) \cup (\h1800 .. \h19FF) :
        ObjName(comm) \in DOMAIN PassOut \ DOMAIN PassIn}
SynthObjects == {x \in DOMAIN PassOut \ DOMAIN PassIn : x[1] = "obj"}

\* the sub-indices of the sub-object sections of comm in the store returned
SubsPresent(comm) == {k \in 0 .. 254 : SubName(comm, k) \in DOMAIN PassOut}

\* the sub-indices 1..6 whose bit 0x01..0x20 is set in [DeviceInfo].CompactPDO
CompactBits ==
    {k \in 1 .. 6 :
        (python_int(PassIn[<<"DeviceInfo">>]["CompactPDO"], 0).value \div (2 ^ (k - 1))) % 2
            = 1}

\* SupportedObjects of [OptionalObjects] in a store
Supported(cfg) == python_int(cfg[<<"OptionalObjects">>]["SupportedObjects"], 0).value

\* C25: a communication record that the CompactPDO pass creates has SubNumber
\* equal to the number of its sub-object sections after the pass, sub0 and one
\* per set bit of CompactPDO among 0x01..0x20, and the DefaultValue of its sub0
\* is the highest sub-index created; every section created for a communication
\* or mapping object is listed in [OptionalObjects] under the next decimal
\* key, so that the keys 1..SupportedObjects are all present.
C25_WellFormed ==
    PassDone
        => /\ \A comm \in SynthComm :
                  /\ SubsPresent(comm) = {0} \cup CompactBits
                  /\ PassOut[ObjName(comm)]["SubNumber"]
                         = Dec(Cardinality(SubsPresent(comm)))
                  /\ PassOut[SubName(comm, 0)]["DefaultValue"]
                         = Dec(Max(SubsPresent(comm)))
                  /\ \A k \in SubsPresent(comm) : SubName(comm, k) \notin DOMAIN PassIn
           /\ DOMAIN PassOut[<<"OptionalObjects">>]
                  = {"SupportedObjects"} \cup {ToString(j) : j \in 1 .. Supported(PassOut)}
           /\ Supported(PassOut) = Supported(PassIn) + Cardinality(SynthObjects)
           /\ \A j \in 1 .. Supported(PassIn) :
                  PassOut[<<"OptionalObjects">>][ToString(j)]
                      = PassIn[<<"OptionalObjects">>][ToString(j)]
           /\ {ObjName(python_int(PassOut[<<"OptionalObjects">>][ToString(j)], 0).value) :
                   j \in Supported(PassIn) + 1 .. Supported(PassOut)} = SynthObjects

\* CompactPDO = 0x12 and NrOfRxPDO = MaxNrOfPDO on a store that holds the
\* mapping object 0x1602 and no RPDO communication record: 0x1402 is created
\* with the sub-objects 0, 2 and 5, SubNumber 3 and sub0 = 5, its mapping
\* object is not created again, and 0x1400 is listed ahead of 0x1600
C25_Witness ==
    /\ PassDone /\ call.fn = "parse_file"
    /\ "CompactPDO" \in DOMAIN PassIn[<<"DeviceInfo">>]
    /\ PassIn[<<"DeviceInfo">>]["CompactPDO"] = Hex(\h12)
    /\ ObjName(\h1602) \in DOMAIN PassIn
    /\ \h1402 \in SynthComm /\ ObjName(\h1602) \notin SynthObjects
    /\ SubsPresent(\h1402) = {0, 2, 5}
    /\ PassOut[ObjName(\h1402)]["SubNumber"] = Dec(3)
    /\ PassOut[SubName(\h1402, 0)]["DefaultValue"] = Dec(5)
    /\ PassOut[<<"OptionalObjects">>][ToString(Supported(PassIn) + 1)] = Hex(\h1400)
    /\ PassOut[<<"OptionalObjects">>][ToString(Supported(PassIn) + 2)] = Hex(\h1600)
    /\ Supported(PassOut) > Supported(PassIn) + MaxNrOfPDO

\* every bit of CompactPDO set: the seven sub-object sections
C25_WitnessAll ==
    /\ PassDone /\ call.fn = "parse_file"
    /\ \h1800 \in SynthComm
    /\ SubsPresent(\h1800) = 0 .. 6
    /\ PassOut[ObjName(\h1800)]["SubNumber"] = Dec(7)

(***************************************************************************)
(* Specification SpecAccept: lint on a store, and Device(cfg, env) on the  *)
(* stores that lint accepts, as Device.from_dcf runs them.                 *)
(***************************************************************************)
\* the key under which the Device model holds the section `name`: Device and
\* Object look sections up by "{:04X}".format(index), by that name followed
\* by "sub{:X}".format(sub_index), and by the names of the fixed sections
DeviceKey(name) ==
    CASE name = N_DeviceInfo -> <<"DeviceInfo">>
      [] name = N_DeviceComissioning -> <<"DeviceComissioning">>
      [] name = N_MandatoryObjects -> <<"MandatoryObjects">>
      [] name = N_OptionalObjects -> <<"OptionalObjects">>
      [] name = N_ManufacturerObjects -> <<"ManufacturerObjects">>
      [] Len(name) = 4 /\ python_int_16(name).exc = ""
         /\ name = Hex4(python_int_16(name).value) ->
             ObjName(python_int_16(name).value)
      [] Len(name) \in {8, 9} /\ python_int_16(SubSeq(name, 1, 4)).exc = ""
         /\ python_int_16(SubSeq(name, 8, Len(name))).exc = ""
         /\ name = Hex4(python_int_16(SubSeq(name, 1, 4)).value) \o <<"s", "u", "b">>
                       \o HexStr(python_int_16(SubSeq(name, 8, Len(name))).value) ->
             SubName(python_int_16(SubSeq(name, 1, 4)).value,
                     python_int_16(SubSeq(name, 8, Len(name))).value)
      [] OTHER -> <<"section", name>>

\* the store of lint as Device reads it
DeviceCfg(cfg) ==
    Force([key \in {DeviceKey(cfg[j][1]) : j \in 2 .. Len(cfg)} |->
              cfg[CHOOSE j \in 2 .. Len(cfg) : DeviceKey(cfg[j][1]) = key][2]])

\* the sections of a VAR object, of a record with n sections, of a sub-object
VarSection(index, data_type, extra) ==
    <<Hex4(index), extra @@ [ParameterName |-> Text("object"), DataType |-> Hex(data_type),
                             AccessType |-> Text("ro")]>>
RecSection(index, n) ==
    <<Hex4(index), [ParameterName |-> Text("record"), ObjectType |-> Hex(\h09),
                    SubNumber |-> Dec(n)]>>
SubSection(index, k, data_type, value) ==
    <<Hex4(index) \o <<"s", "u", "b">> \o HexStr(k),
      [ParameterName |-> Text("sub"), DataType |-> Hex(data_type), AccessType |-> Text("rw"),
       DefaultValue |-> value, PDOMapping |-> Dec(1)]>>

\* the objects of RPDO 1: none; the communication record, its mapping object
\* and the object mapped; the same without the mapping object, without the
\* object mapped, with a mapping of a sub-object that does not exist, and with
\* a mapping of a dummy entry
AcceptPdoKinds == {"none", "ok", "no mapping", "no target", "no sub", "dummy"}
AcceptPdoObjects(pdo) ==
    CASE pdo = "none" -> <<>>
      [] pdo = "no mapping" -> <<\h1400, \h6000>>
      [] pdo = "no target" -> <<\h1400, \h1600>>
      [] OTHER -> <<\h1400, \h1600, \h6000>>
AcceptPdoSections(pdo) ==
    (IF pdo = "none" THEN <<>>
     ELSE <<RecSection(\h1400, 2), SubSection(\h1400, 0, \h0005, Dec(1)),
            SubSection(\h1400, 1, \h0007, NodeIdPlus(Hex(\h200)))>>)
    \o (IF pdo \in {"none", "no mapping"} THEN <<>>
        ELSE <<RecSection(\h1600, 2), SubSection(\h1600, 0, \h0005, Dec(1)),
               SubSection(\h1600, 1, \h0007,
                          CASE pdo = "no sub" -> Hex((\h6000 * 65536) + \h0208)
                            [] pdo = "dummy" -> Hex(\h00050008)
                            [] OTHER -> Hex((\h6000 * 65536) + \h0108))>>)
    \o (IF pdo \in {"none", "no target"} THEN <<>>
        ELSE <<RecSection(\h6000, 2), SubSection(\h6000, 0, \h0005, Dec(1)),
               SubSection(\h6000, 1, \h0005, Dec(0))>>)

\* the object lists: the three of them, [ManufacturerObjects] left out, and
\* the three of them without the object 0x1000
AcceptListKinds == {"all", "no manufacturer", "no 1000"}

\* a store: the object lists, the entries of [DeviceInfo], the identity object
\* with or without its sub-object 1, the objects of RPDO 1, and the LowLimit
\* of object 0x1001
AcceptStore(lists, info, vendor, pdo, low_limit) ==
    <<<<N_DEFAULT, EmptyDict>>, <<N_DeviceInfo, info>>,
      <<N_MandatoryObjects,
        ObjectList(IF lists = "no 1000" THEN <<\h1001, \h1018>>
                   ELSE <<\h1000, \h1001, \h1018>>)>>,
      <<N_OptionalObjects, ObjectList(AcceptPdoObjects(pdo))>>>>
    \o (IF lists = "no manufacturer" THEN <<>>
        ELSE <<<<N_ManufacturerObjects, ObjectList(<<>>)>>>>)
    \o (IF lists = "no 1000" THEN <<>> ELSE <<VarSection(\h1000, \h0007, EmptyDict)>>)
    \o <<VarSection(\h1001, \h0005,
                    IF low_limit = Absent THEN EmptyDict ELSE [LowLimit |-> low_limit]),
         RecSection(\h1018, IF vendor THEN 2 ELSE 1),
         SubSection(\h1018, 0, \h0005, Dec(IF vendor THEN 1 ELSE 0))>>
    \o (IF vendor THEN <<SubSection(\h1018, 1, \h0007, Dec(1))>> ELSE <<>>)
    \o AcceptPdoSections(pdo)

\* the stores: every combination of the lists, of [DeviceInfo], of the identity
\* object and of the LowLimit (none, 1, abc, 010) without a PDO, and the
\* complete store with each kind of RPDO 1
AcceptStores ==
    {AcceptStore(lists, info, vendor, "none", low_limit) :
        lists \in AcceptListKinds,
        info \in {EmptyDict, [ProductNumber |-> Text("abc")]},
        vendor \in BOOLEAN,
        low_limit \in {Absent, Dec(1), Text("abc"),
                       Str("number", "", FALSE, 10, <<0, 1, 0>>)}}
        \cup {AcceptStore("all", EmptyDict, TRUE, pdo, Absent) : pdo \in AcceptPdoKinds}

InitAccept ==
    /\ call \in [fn : {"lint"}, cfg : AcceptStores, env : {Env(5)}]
    /\ ret = NoRet
    /\ warnings = <<>>

\* Device(cfg, env), on a store that lint accepted
Device_accepted ==
    /\ call.fn = "lint"
    /\ "env" \in DOMAIN call
    /\ Len(ret) = 1
    /\ ret[1].exc = "" /\ ret[1].value
    /\ \E r \in {Device_init(store, call.env) : store \in {DeviceCfg(call.cfg)}} :
           /\ ret' = Append(ret, [exc |-> r[1].exc])
           /\ warnings' = warnings \o r[2]
    /\ UNCHANGED call

NextAccept == lint_file \/ Device_accepted

SpecAccept == InitAccept /\ [][NextAccept]_vars

(***************************************************************************)
(* C29: the stores that lint accepts and Device construction.              *)
(***************************************************************************)
\* C29: for a store on which lint returns true, Device(cfg, env) with a
\* node-ID from 1 to 127 in env completes without raising.
C29_Original ==
    (call.fn = "lint" /\ "env" \in DOMAIN call /\ Len(ret) = 2) => ret[2].exc = ""

\* the name is a section of the store
InStore(name) == \E j \in 1 .. Len(call.cfg) : call.cfg[j][1] = name

\* the store has no section [ManufacturerObjects] and is complete otherwise:
\* lint returns true without a warning and Device raises KeyError
C29_Scenario ==
    /\ call.fn = "lint" /\ "env" \in DOMAIN call /\ Len(ret) = 2
    /\ ~InStore(N_ManufacturerObjects)
    /\ InStore(Hex4(\h1000)) /\ InStore(Hex4(\h1018) \o <<"s", "u", "b", "1">>)
    /\ ~InStore(Hex4(\h1400))
    /\ CfgGet(call.cfg, N_DeviceInfo) = EmptyDict
    /\ ~Has(CfgGet(call.cfg, Hex4(\h1001)), "LowLimit")
    /\ ret[1].value /\ warnings = <<>>
    /\ ret[2].exc = "KeyError"

\* the store lists the RPDO communication record 0x1400 and has no mapping
\* object 0x1600: lint returns true and Device raises KeyError
C29_ScenarioMapping ==
    /\ call.fn = "lint" /\ "env" \in DOMAIN call /\ Len(ret) = 2
    /\ InStore(N_ManufacturerObjects) /\ InStore(Hex4(\h1000))
    /\ InStore(Hex4(\h1018) \o <<"s", "u", "b", "1">>)
    /\ InStore(Hex4(\h1400)) /\ ~InStore(Hex4(\h1600))
    /\ CfgGet(call.cfg, N_DeviceInfo) = EmptyDict
    /\ ~Has(CfgGet(call.cfg, Hex4(\h1001)), "LowLimit")
    /\ ret[1].value
    /\ ret[2].exc = "KeyError"

\* the store is complete but for LowLimit=abc in 0x1001: lint warns about the
\* limit and returns true, and Device raises ValueError
C29_ScenarioLimit ==
    /\ call.fn = "lint" /\ "env" \in DOMAIN call /\ Len(ret) = 2
    /\ InStore(N_ManufacturerObjects) /\ InStore(Hex4(\h1000))
    /\ InStore(Hex4(\h1018) \o <<"s", "u", "b", "1">>)
    /\ ~InStore(Hex4(\h1400))
    /\ CfgGet(call.cfg, N_DeviceInfo) = EmptyDict
    /\ Has(CfgGet(call.cfg, Hex4(\h1001)), "LowLimit")
    /\ CfgGet(call.cfg, Hex4(\h1001)).LowLimit = Text("abc")
    /\ ret[1].value /\ Len(warnings) = 1
    /\ ret[2].exc = "ValueError"

\* the store is complete: the three lists, 0x1000, 0x1018/1, numbers in
\* [DeviceInfo] and in the limits, and for RPDO 1 the mapping object and the
\* sub-object mapped
Complete ==
    /\ InStore(N_ManufacturerObjects) /\ InStore(Hex4(\h1000))
    /\ InStore(Hex4(\h1018) \o <<"s", "u", "b", "1">>)
    /\ CfgGet(call.cfg, N_DeviceInfo) = EmptyDict
    /\ Has(CfgGet(call.cfg, Hex4(\h1001)), "LowLimit")
           => python_int(CfgGet(call.cfg, Hex4(\h1001))["LowLimit"], 0).exc = ""
    /\ InStore(Hex4(\h1400))
           => /\ InStore(Hex4(\h1600))
              /\ python_int(CfgGet(call.cfg, Hex4(\h1600) \o <<"s", "u", "b", "1">>)
                                ["DefaultValue"], 0).value
                     \in {(\h6000 * 65536) + \h0108, \h00050008}
              /\ python_int(CfgGet(call.cfg, Hex4(\h1600) \o <<"s", "u", "b", "1">>)
                                ["DefaultValue"], 0).value = (\h6000 * 65536) + \h0108
                     => InStore(Hex4(\h6000) \o <<"s", "u", "b", "1">>)

\* what the code does: lint accepts the complete stores and Device reads them;
\* of the stores that lint accepts, Device raises on those that are not complete
C29_CompleteRead ==
    (call.fn = "lint" /\ "env" \in DOMAIN call /\ ret # NoRet)
        => /\ Complete => ret[1].exc = "" /\ ret[1].value
           /\ Len(ret) = 2 => (ret[2].exc = "" <=> Complete)

====
